---- MODULE Spec2Model ----
(***************************************************************************)
(* Signal orchestration of golang-day-trading-signal: the single-symbol    *)
(* pipeline GenerateSignal (fetch, then infer), the two batch variants     *)
(* GenerateAllSignals and GenerateAllSignalsSummary (sequential loop over  *)
(* config.StockSymbols with a 3 second pause), the Yahoo Finance client's  *)
(* filtering of bars, the Gemini client's stamping of the signal, and the  *)
(* Telegram deliveries the batch runs attempt.                             *)
(*                                                                         *)
(* Every goroutine that runs one of these operations is a task.  A task    *)
(* moves from one blocking call to the next; the local computation between *)
(* two blocking calls is part of the step that returns from the first.     *)
(***************************************************************************)
EXTENDS Integers, Sequences, FiniteSets, TLC

\* ---------------------------------------------------------------- bounds
MaxSymbols == 2
MaxTasks == 2
MaxTime == 1
MaxRequests == 1
MaxClock == 150
MaxCallers == 3
MaxFirings == 2

\* ------------------------------------------------------ program constants
SleepSeconds == 3
MinuteSeconds == 60
DefaultCooldownMins == 15
MinConfidenceLevel == 70

Symbols == {"A", "B"}
Tasks == 1..MaxTasks
Requests == 1..MaxRequests
Callers == 1..MaxCallers
NoValue == "none"

\* ------------------------------------------------------------- strings
\* A direction string is the sequence of its characters, so that
\* strings.ToUpper is computed character by character.
Chars(s) ==
  CASE s = "BUY" -> <<"B", "U", "Y">>
    [] s = "buy" -> <<"b", "u", "y">>
    [] s = "SELL" -> <<"S", "E", "L", "L">>
    [] s = "WAIT" -> <<"W", "A", "I", "T">>
    [] s = "HOLD" -> <<"H", "O", "L", "D">>
    [] s = "UP" -> <<"U", "P">>
    [] s = "/start" -> <<"/", "s", "t", "a", "r", "t">>
    [] s = "/help" -> <<"/", "h", "e", "l", "p">>
    [] s = "/stocks" -> <<"/", "s", "t", "o", "c", "k", "s">>
    [] s = "/bulk" -> <<"/", "b", "u", "l", "k">>
    [] s = " /bulk " -> <<" ", "/", "b", "u", "l", "k", " ">>
    [] s = "/summary" -> <<"/", "s", "u", "m", "m", "a", "r", "y">>
    [] s = "/summary\n" -> <<"/", "s", "u", "m", "m", "a", "r", "y", "\n">>
    [] s = "/foo" -> <<"/", "f", "o", "o">>
    [] s = "/" -> <<"/">>
    [] s = "A" -> <<"A">>
    [] s = "B" -> <<"B">>
    [] s = "\tB " -> <<"\t", "B", " ">>
    [] s = " " -> <<" ">>
    [] s = "08:30" -> <<"0", "8", ":", "3", "0">>
    [] s = " 08:30 " -> <<" ", "0", "8", ":", "3", "0", " ">>
    [] s = "14:45" -> <<"1", "4", ":", "4", "5">>
    [] s = "25:99" -> <<"2", "5", ":", "9", "9">>
    [] s = "1:2:3" -> <<"1", ":", "2", ":", "3">>
    [] s = "bad" -> <<"b", "a", "d">>
    [] s = "*:30" -> <<"*", ":", "3", "0">>
    [] s = ":" -> <<":">>
    [] OTHER -> <<>>

Directions == {Chars("BUY"), Chars("buy"), Chars("SELL"), Chars("WAIT"),
               Chars("HOLD"), Chars("UP")}
Confidences == {55, 80}

UpperChar(c) ==
  CASE c = "b" -> "B"
    [] c = "u" -> "U"
    [] c = "y" -> "Y"
    [] OTHER -> c

ToUpper(s) == [k \in 1..Len(s) |-> UpperChar(s[k])]

\* ------------------------------------------------------- Quote Source
\* What the Yahoo Finance endpoint can answer: a transport or status
\* failure, a chart without a result, or one result with its parallel
\* arrays.
YahooResponses ==
  { [fail |-> TRUE, results |-> 0, quotes |-> 0, timestamp |-> <<>>,
     open |-> <<>>, high |-> <<>>, low |-> <<>>, close |-> <<>>,
     volume |-> <<>>],
    [fail |-> FALSE, results |-> 0, quotes |-> 0, timestamp |-> <<>>,
     open |-> <<>>, high |-> <<>>, low |-> <<>>, close |-> <<>>,
     volume |-> <<>>],
    [fail |-> FALSE, results |-> 1, quotes |-> 0, timestamp |-> <<1>>,
     open |-> <<>>, high |-> <<>>, low |-> <<>>, close |-> <<>>,
     volume |-> <<>>],
    [fail |-> FALSE, results |-> 1, quotes |-> 1, timestamp |-> <<1>>,
     open |-> <<0>>, high |-> <<5>>, low |-> <<4>>, close |-> <<4>>,
     volume |-> <<9>>],
    [fail |-> FALSE, results |-> 1, quotes |-> 1, timestamp |-> <<1, 2, 3>>,
     open |-> <<4, 0, 5>>, high |-> <<5, 5, 6>>, low |-> <<4, 4, 5>>,
     close |-> <<5, 4, 6>>, volume |-> <<9, 9, 9>>] }

RECURSIVE FilterBars(_, _)
FilterBars(q, k) ==
  IF k > Len(q.timestamp) THEN <<>>
  ELSE IF k > Len(q.open) \/ k > Len(q.high) \/ k > Len(q.low)
          \/ k > Len(q.close) \/ k > Len(q.volume)
       THEN FilterBars(q, k + 1)
  ELSE IF q.open[k] = 0 \/ q.high[k] = 0 \/ q.low[k] = 0 \/ q.close[k] = 0
       THEN FilterBars(q, k + 1)
  ELSE <<[Timestamp |-> q.timestamp[k], Open |-> q.open[k],
          High |-> q.high[k], Low |-> q.low[k], Close |-> q.close[k],
          Volume |-> q.volume[k]]>> \o FilterBars(q, k + 1)

\* Variant: a chart whose bars are all discarded is returned as a success.
FetchOHLCDataEmpty(resp) ==
  IF resp.fail \/ resp.results = 0 THEN [err |-> TRUE, data |-> <<>>]
  ELSE IF resp.quotes = 0 THEN [err |-> TRUE, data |-> <<>>]
  ELSE [err |-> FALSE, data |-> FilterBars(resp, 1)]

FetchOHLCData(resp) ==
  IF resp.fail \/ resp.results = 0 THEN [err |-> TRUE, data |-> <<>>]
  ELSE IF resp.quotes = 0 THEN [err |-> TRUE, data |-> <<>>]
  ELSE LET ohlcData == FilterBars(resp, 1)
       IN IF Len(ohlcData) = 0 THEN [err |-> TRUE, data |-> <<>>]
          ELSE [err |-> FALSE, data |-> ohlcData]

\* ----------------------------------------------------- Signal Inference
GeminiResponses ==
  {[fail |-> TRUE, Signal |-> <<>>, Confidence |-> 0]} \cup
  {[fail |-> FALSE, Signal |-> d, Confidence |-> c] :
     d \in Directions, c \in Confidences}

GenerateTradingSignal(sym, resp, t0) ==
  IF resp.fail THEN [err |-> TRUE, signal |-> NoValue]
  ELSE [err |-> FALSE,
        signal |-> [Signal |-> resp.Signal, Confidence |-> resp.Confidence,
                    StockSymbol |-> sym, GeneratedAt |-> t0]]

\* -------------------------------------------------------------- state
VARIABLES
  StockSymbols,   \* config.StockSymbols
  signalCache,    \* TradingSignalService.signalCache
  now,            \* wall clock, in seconds
  sink,           \* every Telegram delivery attempted, in order
  kind,           \* what each task runs: "all", "summary", "single"
  pc,             \* the blocking call each task is in
  idx,            \* loop index i of a batch run, counted from 1
  symbol,         \* argument of the GenerateSignal / fetch in progress
  ohlcData,       \* bars fetched for the symbol in progress
  buySignals, sellSignals, holdSignals, failedSignals,
  summary,        \* the SignalSummary a batch run built (<<>> until built)
  result,         \* what GenerateSignal returned to a single request
  wakeAt,         \* end of the time.Sleep in progress
  sleeps,         \* number of time.Sleep calls of the run
  startedAt,      \* clock value when the task started
  calls,          \* per task: the upstream calls that returned, in order
  SignalCooldownMins, \* config.SignalCooldownMins
  canGenerate,    \* what the canGenerateSignal call just made returned
  request,        \* per inbound HTTP request: its input and its response
  presented,      \* what the presentation layer just formatted
  mu,             \* TradingSignalService.mu, the sync.RWMutex of the cache
  cacheCall,      \* per caller of the cache: its position and its symbol
  fetched,        \* the FetchOHLCData call just made: its answer and result
  scheduleTimes,  \* CronScheduler.scheduleTimes
  cronEntries,    \* cron.Entries(): the registered triggers
  cronState,      \* the cron instance: "new", "running" or "stopped"
  firings,        \* the trigger firings so far, each with the run it started
  scheduleInfo,   \* what GetScheduleInfo just returned
  exited,         \* main has returned
  inFlightAtStop  \* the runs that were in progress when Stop was called

runVars == <<idx, buySignals, sellSignals, holdSignals, failedSignals,
             summary, wakeAt, sleeps>>
taskVars == <<kind, pc, symbol, ohlcData, result, startedAt, calls>>
libVars == <<presented, mu, cacheCall, fetched>>
cronVars == <<scheduleTimes, cronEntries, cronState, firings, scheduleInfo,
              exited, inFlightAtStop>>
extVars == <<SignalCooldownMins, canGenerate, request, libVars, cronVars>>
vars == <<StockSymbols, signalCache, now, sink, runVars, taskVars, extVars>>

N == Len(StockSymbols)

SymbolLists == UNION {[1..n -> Symbols] : n \in 1..MaxSymbols}

\* SIGNAL_COOLDOWN_MINUTES is any integer the environment gives.
CooldownChoices == {-1, 0, 1, 2}

NoRequest ==
  [route |-> NoValue, text |-> "", branch |-> NoValue, pc |-> "idle",
   status |-> 0, task |-> 0]

\* The service as NewTradingSignalService leaves it, for any cooldown.
Boot ==
  /\ StockSymbols \in SymbolLists
  /\ signalCache = [s \in {} |-> 0]
  /\ now = 0
  /\ sink = <<>>
  /\ kind = [t \in Tasks |-> NoValue]
  /\ pc = [t \in Tasks |-> "idle"]
  /\ idx = [t \in Tasks |-> 0]
  /\ symbol = [t \in Tasks |-> NoValue]
  /\ ohlcData = [t \in Tasks |-> <<>>]
  /\ buySignals = [t \in Tasks |-> <<>>]
  /\ sellSignals = [t \in Tasks |-> <<>>]
  /\ holdSignals = [t \in Tasks |-> <<>>]
  /\ failedSignals = [t \in Tasks |-> <<>>]
  /\ summary = [t \in Tasks |-> <<>>]
  /\ result = [t \in Tasks |-> <<>>]
  /\ wakeAt = [t \in Tasks |-> 0]
  /\ sleeps = [t \in Tasks |-> 0]
  /\ startedAt = [t \in Tasks |-> 0]
  /\ calls = [t \in Tasks |-> <<>>]
  /\ canGenerate = <<>>
  /\ request = [r \in Requests |-> NoRequest]
  /\ presented = <<>>
  /\ fetched = <<>>
  /\ mu = [readers |-> 0, writer |-> FALSE]
  /\ cacheCall = [c \in Callers |-> [pc |-> "idle", symbol |-> NoValue]]
  /\ cronEntries = <<>>
  /\ cronState = "new"
  /\ firings = <<>>
  /\ scheduleInfo = <<>>
  /\ exited = FALSE
  /\ inFlightAtStop = {}

\* No scheduler is created when no schedule time is configured.
Init ==
  /\ Boot
  /\ SignalCooldownMins = DefaultCooldownMins
  /\ scheduleTimes = <<>>

\* ------------------------------------------------------ batch loop logic
\* Variants of the switch: without a default case, and without ToUpper.
CategorizeNoDefault(signal, b, s, h) ==
  LET d == ToUpper(signal.Signal)
  IN CASE d = Chars("BUY") -> [buy |-> Append(b, signal), sell |-> s, hold |-> h]
       [] d = Chars("SELL") -> [buy |-> b, sell |-> Append(s, signal), hold |-> h]
       [] d \in {Chars("WAIT"), Chars("HOLD")} ->
            [buy |-> b, sell |-> s, hold |-> Append(h, signal)]
       [] OTHER -> [buy |-> b, sell |-> s, hold |-> h]

CategorizeCaseSensitive(signal, b, s, h) ==
  LET d == signal.Signal
  IN CASE d = Chars("BUY") -> [buy |-> Append(b, signal), sell |-> s, hold |-> h]
       [] d = Chars("SELL") -> [buy |-> b, sell |-> Append(s, signal), hold |-> h]
       [] OTHER -> [buy |-> b, sell |-> s, hold |-> Append(h, signal)]

\* Variant: a signal is put in front of its collection.
CategorizePrepends(signal, b, s, h) ==
  LET d == ToUpper(signal.Signal)
  IN CASE d = Chars("BUY") -> [buy |-> <<signal>> \o b, sell |-> s, hold |-> h]
       [] d = Chars("SELL") -> [buy |-> b, sell |-> <<signal>> \o s, hold |-> h]
       [] OTHER -> [buy |-> b, sell |-> s, hold |-> <<signal>> \o h]

\* The switch on strings.ToUpper(signal.Signal).
Categorize(signal, b, s, h) ==
  LET d == ToUpper(signal.Signal)
  IN CASE d = Chars("BUY") -> [buy |-> Append(b, signal), sell |-> s, hold |-> h]
       [] d = Chars("SELL") -> [buy |-> b, sell |-> Append(s, signal), hold |-> h]
       [] d \in {Chars("WAIT"), Chars("HOLD")} ->
            [buy |-> b, sell |-> s, hold |-> Append(h, signal)]
       [] OTHER -> [buy |-> b, sell |-> s, hold |-> Append(h, signal)]

\* Variant: the failed symbol is logged but not appended.
RecordFailureDropped(f, sym) == f

\* failedSignals = append(failedSignals, symbol); continue
RecordFailure(f, sym) == Append(f, sym)

\* if i < len(t.config.StockSymbols)-1, with i counted from 1 here
DelayAfter(i, n) == i < n

\* Variant: the loop stops one symbol early.
HasNextShort(i, n) == i < n - 1

\* for i, symbol := range t.config.StockSymbols: is there a next iteration
HasNext(i, n) == i < n

\* Variant: the result of the fetch is not checked.
FetchFailedIgnored(r) == FALSE

\* err != nil || len(ohlcData) == 0
FetchFailed(r) == r.err \/ Len(r.data) = 0

SignalSummary(n, b, s, h, f, t0) ==
  [TotalAnalyzed |-> n, BuySignals |-> b, SellSignals |-> s,
   HoldSignals |-> h, FailedSignals |-> f, GeneratedAt |-> t0]

\* Variant: GenerateSignal sends the signal it generated to Telegram.
GenerateSignalNotifies(t, g) ==
  /\ sink' = IF g.err THEN sink
             ELSE Append(sink, [task |-> t, msg |-> "signal",
                                signal |-> g.signal, ok |-> TRUE])
  /\ UNCHANGED signalCache

\* GenerateSignal sends nothing to Telegram and leaves signalCache alone.
GenerateSignalFrame(t, g) == UNCHANGED <<sink, signalCache>>

\* Variant: the loop reads the symbol at the index it has just finished.
NextSymbolStale(t, b, s, h, f) ==
  IF idx[t] < N
  THEN /\ idx' = [idx EXCEPT ![t] = idx[t] + 1]
       /\ symbol' = [symbol EXCEPT ![t] =
                       StockSymbols[IF idx[t] = 0 THEN 1 ELSE idx[t]]]
       /\ pc' = [pc EXCEPT ![t] = "fetching"]
       /\ UNCHANGED summary
  ELSE /\ idx' = [idx EXCEPT ![t] = idx[t] + 1]
       /\ symbol' = [symbol EXCEPT ![t] = NoValue]
       /\ summary' = [summary EXCEPT ![t] = <<SignalSummary(N, b, s, h, f, now)>>]
       /\ pc' = [pc EXCEPT ![t] = "sending"]

\* Enter the next loop iteration, or leave the loop, build the summary and
\* call SendSignalSummary.
NextSymbol(t, b, s, h, f) ==
  IF HasNext(idx[t], N)
  THEN /\ idx' = [idx EXCEPT ![t] = idx[t] + 1]
       /\ symbol' = [symbol EXCEPT ![t] = StockSymbols[idx[t] + 1]]
       /\ pc' = [pc EXCEPT ![t] = "fetching"]
       /\ UNCHANGED summary
  ELSE /\ idx' = [idx EXCEPT ![t] = idx[t] + 1]
       /\ symbol' = [symbol EXCEPT ![t] = NoValue]
       /\ summary' = [summary EXCEPT ![t] = <<SignalSummary(N, b, s, h, f, now)>>]
       /\ pc' = [pc EXCEPT ![t] = "sending"]

\* Variant: the result buckets are one set shared by all runs.
SetBucketsShared(t, b, s, h, f) ==
  /\ buySignals' = [u \in Tasks |-> b]
  /\ sellSignals' = [u \in Tasks |-> s]
  /\ holdSignals' = [u \in Tasks |-> h]
  /\ failedSignals' = [u \in Tasks |-> f]

\* var buySignals, sellSignals, holdSignals, failedSignals: locals of the
\* goroutine of run t.
SetBuckets(t, b, s, h, f) ==
  /\ buySignals' = [buySignals EXCEPT ![t] = b]
  /\ sellSignals' = [sellSignals EXCEPT ![t] = s]
  /\ holdSignals' = [holdSignals EXCEPT ![t] = h]
  /\ failedSignals' = [failedSignals EXCEPT ![t] = f]

\* Variant: a failed symbol ends the goroutine (return instead of continue).
SymbolFailedReturn(t) ==
  LET f == RecordFailure(failedSignals[t], symbol[t])
  IN /\ SetBuckets(t, buySignals[t], sellSignals[t], holdSignals[t], f)
     /\ pc' = [pc EXCEPT ![t] = "done"]
     /\ UNCHANGED <<idx, symbol, summary, wakeAt, sleeps>>

\* Variant: a failed symbol ends the loop (break instead of continue).
SymbolFailedBreak(t) ==
  LET f == RecordFailure(failedSignals[t], symbol[t])
  IN /\ SetBuckets(t, buySignals[t], sellSignals[t], holdSignals[t], f)
     /\ idx' = [idx EXCEPT ![t] = N + 1]
     /\ symbol' = [symbol EXCEPT ![t] = NoValue]
     /\ summary' = [summary EXCEPT ![t] =
                      <<SignalSummary(N, buySignals[t], sellSignals[t],
                                      holdSignals[t], f, now)>>]
     /\ pc' = [pc EXCEPT ![t] = "sending"]
     /\ UNCHANGED <<wakeAt, sleeps>>

\* A symbol of a batch run failed: record it and continue with the next.
SymbolFailed(t) ==
  LET f == RecordFailure(failedSignals[t], symbol[t])
  IN /\ SetBuckets(t, buySignals[t], sellSignals[t], holdSignals[t], f)
     /\ NextSymbol(t, buySignals[t], sellSignals[t], holdSignals[t], f)
     /\ UNCHANGED <<wakeAt, sleeps>>

\* A symbol of a batch run produced a signal: categorize, then pause unless
\* it was the last symbol.
SymbolSucceeded(t, sig) ==
  LET c == Categorize(sig, buySignals[t], sellSignals[t], holdSignals[t])
  IN /\ SetBuckets(t, c.buy, c.sell, c.hold, failedSignals[t])
     /\ IF DelayAfter(idx[t], N)
        THEN /\ pc' = [pc EXCEPT ![t] = "sleeping"]
             /\ wakeAt' = [wakeAt EXCEPT ![t] = now + SleepSeconds]
             /\ sleeps' = [sleeps EXCEPT ![t] = sleeps[t] + 1]
             /\ UNCHANGED <<idx, symbol, summary>>
        ELSE /\ NextSymbol(t, c.buy, c.sell, c.hold, failedSignals[t])
             /\ UNCHANGED <<wakeAt, sleeps>>

\* ------------------------------------------------------------- actions
\* Variant: the per-symbol batch also sends the "request accepted"
\* notification first.
GenerateAllSignalsAccepting(t) ==
  /\ pc[t] = "idle"
  /\ UNCHANGED <<SignalCooldownMins, canGenerate, libVars>>
  /\ \A u \in Tasks : u < t => pc[u] # "idle"
  /\ kind' = [kind EXCEPT ![t] = "all"]
  /\ startedAt' = [startedAt EXCEPT ![t] = now]
  /\ pc' = [pc EXCEPT ![t] = "accepting"]
  /\ UNCHANGED <<StockSymbols, signalCache, now, sink, runVars, symbol,
                 ohlcData, result, calls>>

\* Variant: a batch run starts only while no other run is in progress.
GenerateAllSignalsExclusive(t) ==
  /\ pc[t] = "idle"
  /\ UNCHANGED <<SignalCooldownMins, canGenerate, libVars>>
  /\ \A u \in Tasks : u < t => pc[u] # "idle"
  /\ \A u \in Tasks \ {t} : pc[u] \in {"idle", "done"}
  /\ kind' = [kind EXCEPT ![t] = "all"]
  /\ startedAt' = [startedAt EXCEPT ![t] = now]
  /\ NextSymbol(t, <<>>, <<>>, <<>>, <<>>)
  /\ UNCHANGED <<StockSymbols, signalCache, now, sink, ohlcData, result, calls,
                 buySignals, sellSignals, holdSignals, failedSignals,
                 wakeAt, sleeps>>

\* GetSignalAll, /bulk: GenerateAllSignals spawns the goroutine.
GenerateAllSignals(t) ==
  /\ pc[t] = "idle"
  /\ UNCHANGED <<SignalCooldownMins, canGenerate, libVars>>
  /\ \A u \in Tasks : u < t => pc[u] # "idle"
  /\ kind' = [kind EXCEPT ![t] = "all"]
  /\ startedAt' = [startedAt EXCEPT ![t] = now]
  /\ NextSymbol(t, <<>>, <<>>, <<>>, <<>>)
  /\ UNCHANGED <<StockSymbols, signalCache, now, sink, ohlcData, result, calls,
                 buySignals, sellSignals, holdSignals, failedSignals,
                 wakeAt, sleeps>>

\* Variant: the summary-only run starts its loop without the notification.
GenerateAllSignalsSummarySilent(t) ==
  /\ pc[t] = "idle"
  /\ UNCHANGED <<SignalCooldownMins, canGenerate, libVars>>
  /\ \A u \in Tasks : u < t => pc[u] # "idle"
  /\ kind' = [kind EXCEPT ![t] = "summary"]
  /\ startedAt' = [startedAt EXCEPT ![t] = now]
  /\ NextSymbol(t, <<>>, <<>>, <<>>, <<>>)
  /\ UNCHANGED <<StockSymbols, signalCache, now, sink, ohlcData, result, calls,
                 buySignals, sellSignals, holdSignals, failedSignals,
                 wakeAt, sleeps>>

\* GetSignalAllSummary, /summary, cron: GenerateAllSignalsSummary spawns the
\* goroutine, which first calls SendRequestReceivedMessage.
GenerateAllSignalsSummary(t) ==
  /\ pc[t] = "idle"
  /\ UNCHANGED <<SignalCooldownMins, canGenerate, libVars>>
  /\ \A u \in Tasks : u < t => pc[u] # "idle"
  /\ kind' = [kind EXCEPT ![t] = "summary"]
  /\ startedAt' = [startedAt EXCEPT ![t] = now]
  /\ pc' = [pc EXCEPT ![t] = "accepting"]
  /\ UNCHANGED <<StockSymbols, signalCache, now, sink, runVars, symbol,
                 ohlcData, result, calls>>

\* Variant: a failed notification ends the run.
RequestReceivedReturnAbort(t) ==
  /\ pc[t] = "accepting"
  /\ UNCHANGED extVars
  /\ \E ok \in BOOLEAN :
       /\ sink' = Append(sink, [task |-> t, msg |-> "accepted", total |-> N,
                                ok |-> ok])
       /\ IF ok THEN NextSymbol(t, <<>>, <<>>, <<>>, <<>>)
          ELSE /\ pc' = [pc EXCEPT ![t] = "done"]
               /\ UNCHANGED <<idx, symbol, summary>>
  /\ UNCHANGED <<StockSymbols, signalCache, now, kind, ohlcData, result,
                 startedAt, calls, buySignals, sellSignals, holdSignals,
                 failedSignals, wakeAt, sleeps>>

\* SendRequestReceivedMessage returns; its error is only logged.
RequestReceivedReturn(t) ==
  /\ pc[t] = "accepting"
  /\ UNCHANGED extVars
  /\ \E ok \in BOOLEAN :
       sink' = Append(sink, [task |-> t, msg |-> "accepted", total |-> N,
                             ok |-> ok])
  /\ NextSymbol(t, <<>>, <<>>, <<>>, <<>>)
  /\ UNCHANGED <<StockSymbols, signalCache, now, kind, ohlcData, result,
                 startedAt, calls, buySignals, sellSignals, holdSignals,
                 failedSignals, wakeAt, sleeps>>

\* GetSignal: a single request calls GenerateSignal(symbol).
GenerateSignal(t, sym) ==
  /\ pc[t] = "idle"
  /\ UNCHANGED extVars
  /\ \A u \in Tasks : u < t => pc[u] # "idle"
  /\ kind' = [kind EXCEPT ![t] = "single"]
  /\ startedAt' = [startedAt EXCEPT ![t] = now]
  /\ symbol' = [symbol EXCEPT ![t] = sym]
  /\ pc' = [pc EXCEPT ![t] = "fetching"]
  /\ UNCHANGED <<StockSymbols, signalCache, now, sink, runVars, ohlcData,
                 result, calls>>

\* The tasks that make one GenerateSignal call: a direct caller, and
\* handleStockSymbolRequest, which goes on to deliver the outcome.
SingleKinds == {"single", "symbol"}
AfterGenerateSignal(t) == IF kind[t] = "symbol" THEN "replying" ELSE "done"

\* yahooService.FetchOHLCData returns.
FetchReturn(t) ==
  /\ pc[t] = "fetching"
  /\ UNCHANGED extVars
  /\ \E resp \in YahooResponses :
       LET r == FetchOHLCData(resp)
       IN /\ calls' = [calls EXCEPT ![t] =
                         Append(@, [op |-> "fetch", i |-> idx[t],
                                    symbol |-> symbol[t], err |-> r.err,
                                    bars |-> r.data])]
          /\ IF FetchFailed(r)
             THEN /\ UNCHANGED ohlcData
                  /\ IF kind[t] \in SingleKinds
                     THEN /\ result' = [result EXCEPT ![t] =
                                          <<[err |-> TRUE, signal |-> NoValue]>>]
                          /\ pc' = [pc EXCEPT ![t] = AfterGenerateSignal(t)]
                          /\ UNCHANGED <<runVars, symbol>>
                     ELSE /\ SymbolFailed(t)
                          /\ UNCHANGED result
             ELSE /\ ohlcData' = [ohlcData EXCEPT ![t] = r.data]
                  /\ pc' = [pc EXCEPT ![t] = "inferring"]
                  /\ UNCHANGED <<runVars, symbol, result>>
  /\ IF kind[t] = "summary" THEN UNCHANGED <<sink, signalCache>>
     ELSE GenerateSignalFrame(t, [err |-> TRUE, signal |-> NoValue])
  /\ UNCHANGED <<StockSymbols, now, kind, startedAt>>

\* Variant: a generated signal is recorded in the cooldown cache.
InferReturnRecords(t) ==
  /\ pc[t] = "inferring"
  /\ UNCHANGED extVars
  /\ \E resp \in GeminiResponses :
       LET g == GenerateTradingSignal(symbol[t], resp, now)
       IN /\ calls' = [calls EXCEPT ![t] =
                         Append(@, [op |-> "infer", i |-> idx[t],
                                    symbol |-> symbol[t], err |-> g.err,
                                    bars |-> ohlcData[t], out |-> g])]
          /\ IF kind[t] \in SingleKinds
             THEN /\ result' = [result EXCEPT ![t] = <<g>>]
                  /\ pc' = [pc EXCEPT ![t] = AfterGenerateSignal(t)]
                  /\ UNCHANGED <<runVars, symbol>>
             ELSE /\ IF g.err THEN SymbolFailed(t)
                     ELSE SymbolSucceeded(t, g.signal)
                  /\ UNCHANGED result
          /\ UNCHANGED sink
          /\ signalCache' =
               IF g.err THEN signalCache
               ELSE [s \in DOMAIN signalCache \cup {symbol[t]} |->
                       IF s = symbol[t] THEN now ELSE signalCache[s]]
  /\ ohlcData' = [ohlcData EXCEPT ![t] = <<>>]
  /\ UNCHANGED <<StockSymbols, now, kind, startedAt>>

\* geminiService.GenerateTradingSignal returns.
InferReturn(t) ==
  /\ pc[t] = "inferring"
  /\ UNCHANGED extVars
  /\ \E resp \in GeminiResponses :
       LET g == GenerateTradingSignal(symbol[t], resp, now)
       IN /\ calls' = [calls EXCEPT ![t] =
                         Append(@, [op |-> "infer", i |-> idx[t],
                                    symbol |-> symbol[t], err |-> g.err,
                                    bars |-> ohlcData[t], out |-> g])]
          /\ IF kind[t] \in SingleKinds
             THEN /\ result' = [result EXCEPT ![t] = <<g>>]
                  /\ pc' = [pc EXCEPT ![t] = AfterGenerateSignal(t)]
                  /\ UNCHANGED <<runVars, symbol>>
             ELSE /\ IF g.err THEN SymbolFailed(t)
                     ELSE SymbolSucceeded(t, g.signal)
                  /\ UNCHANGED result
          /\ IF kind[t] = "summary" THEN UNCHANGED <<sink, signalCache>>
             ELSE GenerateSignalFrame(t, g)
  /\ ohlcData' = [ohlcData EXCEPT ![t] = <<>>]
  /\ UNCHANGED <<StockSymbols, now, kind, startedAt>>

\* time.Sleep(3 * time.Second) returns.
SleepReturn(t) ==
  /\ pc[t] = "sleeping"
  /\ UNCHANGED extVars
  /\ now >= wakeAt[t]
  /\ NextSymbol(t, buySignals[t], sellSignals[t], holdSignals[t],
                failedSignals[t])
  /\ UNCHANGED <<StockSymbols, signalCache, now, sink, kind, ohlcData, result,
                 startedAt, calls, buySignals, sellSignals, holdSignals,
                 failedSignals, wakeAt, sleeps>>

\* telegramService.SendSignalSummary returns; its error is only logged.
SummaryReturn(t) ==
  /\ pc[t] = "sending"
  /\ UNCHANGED extVars
  /\ \E ok \in BOOLEAN :
       sink' = Append(sink, [task |-> t, msg |-> "summary",
                             summary |-> summary[t][1], ok |-> ok])
  /\ pc' = [pc EXCEPT ![t] = "done"]
  /\ UNCHANGED <<StockSymbols, signalCache, now, runVars, kind, symbol,
                 ohlcData, result, startedAt, calls>>

\* One second passes.
Tick ==
  /\ \/ now < MaxTime
     \/ \E t \in Tasks : pc[t] = "sleeping" /\ now < wakeAt[t]
  /\ now' = now + 1
  /\ UNCHANGED <<StockSymbols, signalCache, sink, runVars, taskVars, extVars>>

\* The goroutines whose steps are explored together.
Active == {1}

Next ==
  \/ \E t \in Active :
       GenerateAllSignals(t) /\ UNCHANGED <<request, cronVars>>
  \/ \E t \in Active :
       GenerateAllSignalsSummary(t) /\ UNCHANGED <<request, cronVars>>
  \/ \E t \in Active : RequestReceivedReturn(t)
  \/ \E t \in Active, sym \in Symbols : GenerateSignal(t, sym)
  \/ \E t \in Active : FetchReturn(t)
  \/ \E t \in Active : InferReturn(t)
  \/ \E t \in Active : SleepReturn(t)
  \/ \E t \in Active : SummaryReturn(t)
  \/ Tick

Spec == Init /\ [][Next]_vars

\* Every call a started goroutine is waiting for returns in the end, and
\* the clock goes on while a goroutine sleeps.
Fairness ==
  /\ \A t \in Active : WF_vars(RequestReceivedReturn(t))
  /\ \A t \in Active : WF_vars(FetchReturn(t))
  /\ \A t \in Active : WF_vars(InferReturn(t))
  /\ \A t \in Active : WF_vars(SleepReturn(t))
  /\ \A t \in Active : WF_vars(SummaryReturn(t))
  /\ WF_vars(Tick)

SpecLive == Spec /\ Fairness


\* ------------------------------------------------------- Cooldown Cache
\* time.Duration(t.config.SignalCooldownMins) * time.Minute, in seconds
CooldownDuration(mins) == mins * MinuteSeconds

\* Variants: a strict comparison, and a missing entry that blocks.
canGenerateSignalStrict(cache, sym, mins, t0) ==
  IF sym \notin DOMAIN cache THEN TRUE
  ELSE t0 - cache[sym] > CooldownDuration(mins)

canGenerateSignalNoEntry(cache, sym, mins, t0) ==
  IF sym \notin DOMAIN cache THEN FALSE
  ELSE t0 - cache[sym] >= CooldownDuration(mins)

\* canGenerateSignal under the read lock.
canGenerateSignal(cache, sym, mins, t0) ==
  IF sym \notin DOMAIN cache THEN TRUE
  ELSE t0 - cache[sym] >= CooldownDuration(mins)

\* Variant: recording a symbol forgets the other symbols.
updateSignalCacheOnly(cache, sym, t0) == [s \in {sym} |-> t0]

\* updateSignalCache under the write lock.
updateSignalCache(cache, sym, t0) ==
  [s \in DOMAIN cache \cup {sym} |-> IF s = sym THEN t0 ELSE cache[s]]

\* A call of canGenerateSignal(sym); canGenerate holds its answer until the
\* cache or the clock changes.
CanGenerateCall(sym) ==
  /\ canGenerate' = <<[symbol |-> sym,
                       value |-> canGenerateSignal(signalCache, sym,
                                                   SignalCooldownMins, now)]>>
  /\ UNCHANGED <<StockSymbols, signalCache, now, sink, runVars, taskVars,
                 SignalCooldownMins, request, libVars, cronVars>>

\* A call of updateSignalCache(sym).
UpdateCall(sym) ==
  /\ signalCache' = updateSignalCache(signalCache, sym, now)
  /\ canGenerate' = <<>>
  /\ UNCHANGED <<StockSymbols, now, sink, runVars, taskVars,
                 SignalCooldownMins, request, libVars, cronVars>>

\* Half a minute or a minute passes.
ElapseChoices == {30, 60}
Elapse ==
  /\ \E d \in ElapseChoices :
       /\ now + d <= MaxClock
       /\ now' = now + d
  /\ canGenerate' = <<>>
  /\ UNCHANGED <<StockSymbols, signalCache, sink, runVars, taskVars,
                 SignalCooldownMins, request, libVars, cronVars>>

InitCache ==
  /\ Boot
  /\ SignalCooldownMins \in CooldownChoices
  /\ scheduleTimes = <<>>

NextCache ==
  \/ \E sym \in Symbols : CanGenerateCall(sym)
  \/ \E sym \in Symbols : UpdateCall(sym)
  \/ Elapse

SpecCache == InitCache /\ [][NextCache]_vars

\* ------------------------------------------- Cooldown Cache under its lock
\* The callers inside the cache, and the writers waiting to get in.
Reading == {c \in Callers : cacheCall[c].pc = "reading"}
Writing == {c \in Callers : cacheCall[c].pc = "writing"}
LockWaiting == {c \in Callers : cacheCall[c].pc = "lockwait"}

\* canGenerateSignal(sym): t.mu.RLock() returns. A read lock is granted
\* while no writer holds the lock or waits for it.
RLock(c, sym) ==
  /\ cacheCall[c].pc = "idle"
  /\ ~mu.writer
  /\ LockWaiting = {}
  /\ mu' = [mu EXCEPT !.readers = @ + 1]
  /\ cacheCall' = [cacheCall EXCEPT ![c] = [pc |-> "reading", symbol |-> sym]]
  /\ UNCHANGED <<StockSymbols, signalCache, now, sink, runVars, taskVars,
                 SignalCooldownMins, canGenerate, request, presented, fetched,
                 cronVars>>

\* canGenerateSignal reads the map and returns; the deferred RUnlock runs.
RUnlock(c) ==
  /\ cacheCall[c].pc = "reading"
  /\ canGenerate' = <<[symbol |-> cacheCall[c].symbol,
                       value |-> canGenerateSignal(signalCache,
                                                   cacheCall[c].symbol,
                                                   SignalCooldownMins, now)]>>
  /\ mu' = [mu EXCEPT !.readers = @ - 1]
  /\ cacheCall' = [cacheCall EXCEPT ![c] = [pc |-> "idle", symbol |-> NoValue]]
  /\ UNCHANGED <<StockSymbols, signalCache, now, sink, runVars, taskVars,
                 SignalCooldownMins, request, presented, fetched,
                 cronVars>>

\* updateSignalCache(sym): t.mu.Lock() is called.
LockCall(c, sym) ==
  /\ cacheCall[c].pc = "idle"
  /\ cacheCall' = [cacheCall EXCEPT ![c] = [pc |-> "lockwait", symbol |-> sym]]
  /\ UNCHANGED <<StockSymbols, signalCache, now, sink, runVars, taskVars,
                 SignalCooldownMins, canGenerate, request, presented, fetched, mu,
                 cronVars>>

\* Variant: the write lock is granted while readers are inside.
LockNoDrain(c) ==
  /\ cacheCall[c].pc = "lockwait"
  /\ ~mu.writer
  /\ mu' = [mu EXCEPT !.writer = TRUE]
  /\ cacheCall' = [cacheCall EXCEPT ![c].pc = "writing"]
  /\ UNCHANGED <<StockSymbols, signalCache, now, sink, runVars, taskVars,
                 SignalCooldownMins, canGenerate, request, presented, fetched,
                 cronVars>>

\* t.mu.Lock() returns: no writer and no reader is inside.
Lock(c) ==
  /\ cacheCall[c].pc = "lockwait"
  /\ ~mu.writer
  /\ mu.readers = 0
  /\ mu' = [mu EXCEPT !.writer = TRUE]
  /\ cacheCall' = [cacheCall EXCEPT ![c].pc = "writing"]
  /\ UNCHANGED <<StockSymbols, signalCache, now, sink, runVars, taskVars,
                 SignalCooldownMins, canGenerate, request, presented, fetched,
                 cronVars>>

\* updateSignalCache writes the map and returns; the deferred Unlock runs.
Unlock(c) ==
  /\ cacheCall[c].pc = "writing"
  /\ signalCache' = updateSignalCache(signalCache, cacheCall[c].symbol, now)
  /\ canGenerate' = <<>>
  /\ mu' = [mu EXCEPT !.writer = FALSE]
  /\ cacheCall' = [cacheCall EXCEPT ![c] = [pc |-> "idle", symbol |-> NoValue]]
  /\ UNCHANGED <<StockSymbols, now, sink, runVars, taskVars,
                 SignalCooldownMins, request, presented, fetched,
                 cronVars>>

NextLock ==
  \/ \E c \in Callers, sym \in Symbols : RLock(c, sym)
  \/ \E c \in Callers : RUnlock(c)
  \/ \E c \in Callers, sym \in Symbols : LockCall(c, sym)
  \/ \E c \in Callers : Lock(c)
  \/ \E c \in Callers : Unlock(c)
  \/ Elapse

SpecLock == Init /\ [][NextLock]_vars

\* --------------------------------------------------- Command Dispatcher
\* Message texts a Telegram update can carry.
InboundTexts ==
  {"/start", "/help", "/stocks", "/bulk", " /bulk ", "/summary",
   "/summary\n", "/foo", "A", "\tB ", " ", ""}

\* The strings of the model: the inbound texts and what trimming leaves.
Strings == InboundTexts \cup {"B"}
FromChars(cs) == CHOOSE s \in Strings : Chars(s) = cs

WhiteSpace == {" ", "\t", "\n"}

RECURSIVE TrimLeft(_)
TrimLeft(cs) ==
  IF cs # <<>> /\ Head(cs) \in WhiteSpace THEN TrimLeft(Tail(cs)) ELSE cs

RECURSIVE TrimRight(_)
TrimRight(cs) ==
  IF cs # <<>> /\ cs[Len(cs)] \in WhiteSpace
  THEN TrimRight(SubSeq(cs, 1, Len(cs) - 1))
  ELSE cs

\* Variant: the text is taken as it came.
TrimSpaceNone(s) == s

\* strings.TrimSpace
TrimSpace(s) == FromChars(TrimRight(TrimLeft(Chars(s))))

\* strings.HasPrefix
HasPrefix(s, prefix) ==
  /\ Len(Chars(s)) >= Len(Chars(prefix))
  /\ SubSeq(Chars(s), 1, Len(Chars(prefix))) = Chars(prefix)

\* The switch of TelegramWebhook, in the order of its cases.
Dispatch(text) ==
  IF text = "/start" THEN "start"
  ELSE IF text = "/help" THEN "help"
  ELSE IF text = "/bulk" THEN "bulk"
  ELSE IF text = "/summary" THEN "summary"
  ELSE IF text = "/stocks" THEN "stocks"
  ELSE IF text # "" /\ ~HasPrefix(text, "/") THEN "symbol"
  ELSE "unknown"

\* The text a branch delivers from the handler itself.
ResponseText(branch) ==
  CASE branch = "start" -> "welcome"
    [] branch = "help" -> "help"
    [] branch = "bulk" -> "bulk_started"
    [] branch = "summary" -> "summary_started"
    [] branch = "stocks" -> "stocks"
    [] OTHER -> "unknown"

StatusOK == 200
StatusInternalServerError == 500

\* go h.handleStockSymbolRequest(chatID, text): the goroutine starts with
\* the delivery of the processing message.
handleStockSymbolRequest(t, sym) ==
  /\ pc[t] = "idle"
  /\ \A u \in Tasks : u < t => pc[u] # "idle"
  /\ kind' = [kind EXCEPT ![t] = "symbol"]
  /\ startedAt' = [startedAt EXCEPT ![t] = now]
  /\ symbol' = [symbol EXCEPT ![t] = sym]
  /\ pc' = [pc EXCEPT ![t] = "analyzing"]
  /\ UNCHANGED <<StockSymbols, signalCache, now, sink, runVars, ohlcData,
                 result, calls, SignalCooldownMins, canGenerate, libVars>>

\* POST /telegram/webhook with a message: the handler runs up to its
\* response or up to the delivery of its response text.
TelegramWebhook(r, text) ==
  /\ request[r].pc = "idle"
  /\ LET trimmed == TrimSpace(text)
         branch == Dispatch(trimmed)
         q == [route |-> "webhook", text |-> text, branch |-> branch,
               pc |-> "sending", status |-> 0, task |-> 0]
     IN CASE branch = "bulk" ->
               \E t \in Tasks :
                  /\ GenerateAllSignals(t)
                  /\ request' = [request EXCEPT ![r] = [q EXCEPT !.task = t]]
          [] branch = "summary" ->
               \E t \in Tasks :
                  /\ GenerateAllSignalsSummary(t)
                  /\ request' = [request EXCEPT ![r] = [q EXCEPT !.task = t]]
          [] branch = "symbol" ->
               \E t \in Tasks :
                  /\ handleStockSymbolRequest(t, trimmed)
                  /\ request' = [request EXCEPT ![r] =
                                   [q EXCEPT !.task = t, !.pc = "responded",
                                             !.status = StatusOK]]
          [] OTHER ->
               /\ request' = [request EXCEPT ![r] = q]
               /\ UNCHANGED <<StockSymbols, signalCache, now, sink, runVars,
                              taskVars, SignalCooldownMins, canGenerate,
                              libVars>>
  /\ UNCHANGED cronVars

\* Variants: the response waits for the started run; a failed delivery is
\* answered like a successful one.
ResponseReturnWaits(r) ==
  /\ request[r].pc = "sending"
  /\ request[r].task # 0 => pc[request[r].task] = "done"
  /\ \E ok \in BOOLEAN :
       /\ sink' = Append(sink, [task |-> 0, req |-> r,
                                msg |-> ResponseText(request[r].branch),
                                list |-> StockSymbols, ok |-> ok])
       /\ request' = [request EXCEPT ![r].pc = "responded",
                        ![r].status = IF ok THEN StatusOK
                                      ELSE StatusInternalServerError]
  /\ UNCHANGED <<StockSymbols, signalCache, now, runVars, taskVars,
                 SignalCooldownMins, canGenerate, libVars, cronVars>>

ResponseReturnSwallow(r) ==
  /\ request[r].pc = "sending"
  /\ \E ok \in BOOLEAN :
       /\ sink' = Append(sink, [task |-> 0, req |-> r,
                                msg |-> ResponseText(request[r].branch),
                                list |-> StockSymbols, ok |-> ok])
       /\ request' = [request EXCEPT ![r].pc = "responded",
                        ![r].status = StatusOK]
  /\ UNCHANGED <<StockSymbols, signalCache, now, runVars, taskVars,
                 SignalCooldownMins, canGenerate, libVars, cronVars>>

\* Variant: a failed delivery of the response text ends the started run.
ResponseReturnCancels(r) ==
  /\ request[r].pc = "sending"
  /\ \E ok \in BOOLEAN :
       /\ sink' = Append(sink, [task |-> 0, req |-> r,
                                msg |-> ResponseText(request[r].branch),
                                list |-> StockSymbols, ok |-> ok])
       /\ request' = [request EXCEPT ![r].pc = "responded",
                        ![r].status = IF ok THEN StatusOK
                                      ELSE StatusInternalServerError]
       /\ pc' = IF ~ok /\ request[r].task # 0
                THEN [pc EXCEPT ![request[r].task] = "done"]
                ELSE pc
  /\ UNCHANGED <<StockSymbols, signalCache, now, runVars, kind, symbol,
                 ohlcData, result, startedAt, calls,
                 SignalCooldownMins, canGenerate, libVars, cronVars>>

\* The delivery of the handler's response text returns (SendWelcomeMessage,
\* SendHelpMessage, SendStocksListMessage, SendMessageToChat), and the
\* handler answers: 500 when the delivery failed, 200 otherwise.
ResponseReturn(r) ==
  /\ request[r].pc = "sending"
  /\ \E ok \in BOOLEAN :
       /\ sink' = Append(sink, [task |-> 0, req |-> r,
                                msg |-> ResponseText(request[r].branch),
                                list |-> StockSymbols, ok |-> ok])
       /\ request' = [request EXCEPT ![r].pc = "responded",
                        ![r].status = IF ok THEN StatusOK
                                      ELSE StatusInternalServerError]
  /\ UNCHANGED <<StockSymbols, signalCache, now, runVars, taskVars,
                 SignalCooldownMins, canGenerate, libVars, cronVars>>

\* GET /signal-all: start the batch, answer 200.
GetSignalAll(r) ==
  /\ request[r].pc = "idle"
  /\ \E t \in Tasks :
       /\ GenerateAllSignals(t)
       /\ request' = [request EXCEPT ![r] =
                        [route |-> "signal-all", text |-> "",
                         branch |-> NoValue, pc |-> "responded",
                         status |-> StatusOK, task |-> t]]
  /\ UNCHANGED cronVars

\* GET /signal-all-summary: start the summary-only batch, answer 200.
GetSignalAllSummary(r) ==
  /\ request[r].pc = "idle"
  /\ \E t \in Tasks :
       /\ GenerateAllSignalsSummary(t)
       /\ request' = [request EXCEPT ![r] =
                        [route |-> "signal-all-summary", text |-> "",
                         branch |-> NoValue, pc |-> "responded",
                         status |-> StatusOK, task |-> t]]
  /\ UNCHANGED cronVars

\* The delivery of the processing message returns; its error is dropped.
AnalyzingReturn(t) ==
  /\ pc[t] = "analyzing"
  /\ \E ok \in BOOLEAN :
       sink' = Append(sink, [task |-> t, msg |-> "analyzing",
                             symbol |-> symbol[t], ok |-> ok])
  /\ pc' = [pc EXCEPT ![t] = "fetching"]
  /\ UNCHANGED <<StockSymbols, signalCache, now, runVars, kind, symbol,
                 ohlcData, result, startedAt, calls, extVars>>

\* Variant: a generation failure is not told to the requester.
ReplyReturnSilent(t) ==
  /\ pc[t] = "replying"
  /\ LET g == result[t][1]
     IN IF g.err
        THEN /\ pc' = [pc EXCEPT ![t] = "done"]
             /\ UNCHANGED sink
        ELSE \E ok \in BOOLEAN :
               /\ sink' = Append(sink, [task |-> t, msg |-> "signal",
                                        symbol |-> symbol[t],
                                        signal |-> g.signal, ok |-> ok])
               /\ pc' = [pc EXCEPT ![t] = IF ok THEN "done" ELSE "reporting"]
  /\ UNCHANGED <<StockSymbols, signalCache, now, runVars, kind, symbol,
                 ohlcData, result, startedAt, calls, extVars>>

\* After GenerateSignal: the delivery of the "Failed to analyze" message or
\* of the signal returns; a failed delivery of the signal is reported next.
ReplyReturn(t) ==
  /\ pc[t] = "replying"
  /\ LET g == result[t][1]
     IN \E ok \in BOOLEAN :
          IF g.err
          THEN /\ sink' = Append(sink, [task |-> t, msg |-> "analyze_failed",
                                        symbol |-> symbol[t], ok |-> ok])
               /\ pc' = [pc EXCEPT ![t] = "done"]
          ELSE /\ sink' = Append(sink, [task |-> t, msg |-> "signal",
                                        symbol |-> symbol[t],
                                        signal |-> g.signal, ok |-> ok])
               /\ pc' = [pc EXCEPT ![t] = IF ok THEN "done" ELSE "reporting"]
  /\ UNCHANGED <<StockSymbols, signalCache, now, runVars, kind, symbol,
                 ohlcData, result, startedAt, calls, extVars>>

\* The delivery of the "Failed to send signal" message returns.
ReportReturn(t) ==
  /\ pc[t] = "reporting"
  /\ \E ok \in BOOLEAN :
       sink' = Append(sink, [task |-> t, msg |-> "send_failed",
                             symbol |-> symbol[t], ok |-> ok])
  /\ pc' = [pc EXCEPT ![t] = "done"]
  /\ UNCHANGED <<StockSymbols, signalCache, now, runVars, kind, symbol,
                 ohlcData, result, startedAt, calls, extVars>>

NextWeb ==
  \/ \E r \in Requests, text \in InboundTexts : TelegramWebhook(r, text)
  \/ \E r \in Requests : ResponseReturn(r)
  \/ \E r \in Requests : GetSignalAll(r)
  \/ \E r \in Requests : GetSignalAllSummary(r)
  \/ \E t \in Active : AnalyzingReturn(t)
  \/ \E t \in Active : RequestReceivedReturn(t)
  \/ \E t \in Active : FetchReturn(t)
  \/ \E t \in Active : InferReturn(t)
  \/ \E t \in Active : ReplyReturn(t)
  \/ \E t \in Active : ReportReturn(t)
  \/ \E t \in Active : SleepReturn(t)
  \/ \E t \in Active : SummaryReturn(t)
  \/ Tick

SpecWeb == Init /\ [][NextWeb]_vars

\* --------------------------------------------------------- Presentation
\* Signals handed to the presentation layer; prices in whole units.
PresentDirections == {Chars("BUY"), Chars("SELL"), Chars("WAIT"), Chars("buy")}
PresentSignals ==
  [Signal : PresentDirections, BuyPrice : {100}, StopLoss : {95, 100, 105},
   TargetPrice : {90, 100, 110}, Confidence : Confidences,
   StockSymbol : Symbols, GeneratedAt : {0}]

\* A quotient as "%.2f" prints it, in hundredths (den > 0, num >= 0).
Hundredths(num, den) == (200 * num + den) \div (2 * den)

NoRatio == [risk |-> 0, reward |-> 0, ratio |-> 0, err |-> FALSE]

\* calculateRiskRewardRatio: every return carries a nil error.
calculateRiskRewardRatio(signal) ==
  IF signal.Signal = Chars("WAIT") THEN NoRatio
  ELSE IF signal.Signal \notin {Chars("BUY"), Chars("SELL")} THEN NoRatio
  ELSE LET risk == IF signal.Signal = Chars("BUY")
                   THEN signal.BuyPrice - signal.StopLoss
                   ELSE signal.StopLoss - signal.BuyPrice
           reward == IF signal.Signal = Chars("BUY")
                     THEN signal.TargetPrice - signal.BuyPrice
                     ELSE signal.BuyPrice - signal.TargetPrice
       IN IF risk <= 0 THEN NoRatio
          ELSE IF reward <= 0 THEN NoRatio
          ELSE [risk |-> risk, reward |-> reward,
                ratio |-> Hundredths(reward, risk), err |-> FALSE]

\* formatSignalMessage: the message as the sequence of its blocks.
formatSignalMessage(signal) ==
  LET r == calculateRiskRewardRatio(signal)
  IN <<[part |-> "title", direction |-> ToUpper(signal.Signal),
        symbol |-> signal.StockSymbol],
       [part |-> "prices", buy |-> signal.BuyPrice,
        target |-> signal.TargetPrice, stop |-> signal.StopLoss]>>
     \o (IF signal.Signal # Chars("WAIT") /\ ~r.err
         THEN <<[part |-> "risk_reward", risk |-> r.risk,
                 reward |-> r.reward, ratio |-> r.ratio]>>
         ELSE <<>>)
     \o <<[part |-> "confidence", confidence |-> signal.Confidence]>>

\* The line of one signal in a BUY or SELL section: with "R:R 1:%.2f" when
\* calculateRiskRewardRatio returned no error, without it otherwise.
SummaryLine(section, signal) ==
  LET r == calculateRiskRewardRatio(signal)
  IN [part |-> section, symbol |-> signal.StockSymbol,
      confidence |-> signal.Confidence, stop |-> signal.StopLoss,
      ratio |-> IF r.err THEN <<>> ELSE <<r.ratio>>]

\* formatSummaryMessage: the header and one line per listed signal.
formatSummaryMessage(sum) ==
  <<[part |-> "header", total |-> sum.TotalAnalyzed,
     buy |-> Len(sum.BuySignals), sell |-> Len(sum.SellSignals),
     hold |-> Len(sum.HoldSignals), failed |-> Len(sum.FailedSignals)]>>
  \o [k \in 1..Len(sum.BuySignals) |-> SummaryLine("buy", sum.BuySignals[k])]
  \o [k \in 1..Len(sum.SellSignals) |-> SummaryLine("sell", sum.SellSignals[k])]
  \o [k \in 1..Len(sum.HoldSignals) |->
        [part |-> "hold", symbol |-> sum.HoldSignals[k].StockSymbol,
         confidence |-> sum.HoldSignals[k].Confidence]]
  \o [k \in 1..Len(sum.FailedSignals) |->
        [part |-> "failed", symbol |-> sum.FailedSignals[k]]]

\* SendTradingSignal / SendTradingSignalToChat format one signal.
PresentSignal(signal) ==
  /\ presented' = <<[kind |-> "signal", signal |-> signal,
                     message |-> formatSignalMessage(signal)]>>
  /\ UNCHANGED <<StockSymbols, signalCache, now, sink, runVars, taskVars,
                 SignalCooldownMins, canGenerate, request, mu, cacheCall, fetched,
                 cronVars>>

\* SendSignalSummary formats the summary of a run that produced one signal.
PresentSummary(signal) ==
  /\ LET c == Categorize(signal, <<>>, <<>>, <<>>)
     IN presented' =
          <<[kind |-> "summary", signal |-> signal,
             message |-> formatSummaryMessage(
                           SignalSummary(1, c.buy, c.sell, c.hold, <<>>, 0))]>>
  /\ UNCHANGED <<StockSymbols, signalCache, now, sink, runVars, taskVars,
                 SignalCooldownMins, canGenerate, request, mu, cacheCall, fetched,
                 cronVars>>

NextPresent ==
  \/ \E signal \in PresentSignals : PresentSignal(signal)
  \/ \E signal \in PresentSignals : PresentSummary(signal)

SpecPresent == Init /\ [][NextPresent]_vars

\* ------------------------------------------------------------ Scheduler
\* Schedule lists a deployment can configure: well-formed times, a time
\* given twice, entries that do not split in two, an entry the cron parser
\* refuses, blank and padded entries.
ScheduleLists ==
  {<<"08:30", "bad", "14:45">>, <<"08:30", "08:30">>, <<"25:99", "14:45">>,
   <<" 08:30 ", "1:2:3">>, <<"", "14:45">>, <<"bad">>, <<"*:30", "14:45">>}

\* strings.Split(s, sep) on character sequences, sep one character.
RECURSIVE Split(_, _)
Split(cs, sep) ==
  IF \A k \in 1..Len(cs) : cs[k] # sep THEN <<cs>>
  ELSE LET i == CHOOSE k \in 1..Len(cs) :
                   cs[k] = sep /\ \A j \in 1..(k - 1) : cs[j] # sep
       IN <<SubSeq(cs, 1, i - 1)>> \o Split(SubSeq(cs, i + 1, Len(cs)), sep)

Digits == {"0", "1", "2", "3", "4", "5", "6", "7", "8", "9"}
DigitValue(c) ==
  CASE c = "0" -> 0 [] c = "1" -> 1 [] c = "2" -> 2 [] c = "3" -> 3
    [] c = "4" -> 4 [] c = "5" -> 5 [] c = "6" -> 6 [] c = "7" -> 7
    [] c = "8" -> 8 [] c = "9" -> 9

RECURSIVE Number(_)
Number(cs) ==
  IF cs = <<>> THEN 0
  ELSE 10 * Number(SubSeq(cs, 1, Len(cs) - 1)) + DigitValue(cs[Len(cs)])

\* A numeric cron field within its range.
CronField(cs, max) ==
  /\ cs # <<>>
  /\ \A k \in 1..Len(cs) : cs[k] \in Digits
  /\ Number(cs) <= max

\* The values of its range a field of the expression "minute hour * * *"
\* stands for: a number stands for itself, the wildcard for every value;
\* the empty set when the parser refuses the field.
FieldValues(cs, max) ==
  IF cs = <<"*">> THEN 0..max
  ELSE IF CronField(cs, max) THEN {Number(cs)}
  ELSE {}

\* cs.cron.AddFunc(cronExpr, ...): the entries with the new one, or an error.
AddFunc(entries, hour, minute) ==
  IF FieldValues(minute, 59) # {} /\ FieldValues(hour, 23) # {}
  THEN [err |-> FALSE,
        entries |-> Append(entries, [ID |-> Len(entries) + 1,
                                     hour |-> FieldValues(hour, 23),
                                     minute |-> FieldValues(minute, 59)])]
  ELSE [err |-> TRUE, entries |-> entries]

\* Variant: the loop of Start ends at the first entry it cannot register.
RECURSIVE RegisterAbort(_, _, _)
RegisterAbort(times, k, entries) ==
  IF k > Len(times) THEN entries
  ELSE LET scheduleTime == TrimRight(TrimLeft(Chars(times[k])))
           parts == Split(scheduleTime, ":")
       IN IF scheduleTime = <<>> THEN RegisterAbort(times, k + 1, entries)
          ELSE IF Len(parts) # 2 THEN entries
          ELSE LET a == AddFunc(entries, parts[1], parts[2])
               IN IF a.err THEN entries
                  ELSE RegisterAbort(times, k + 1, a.entries)

\* The loop of Start from entry k on: blank entries, entries that do not
\* split in two and entries AddFunc refuses are skipped.
RECURSIVE Register(_, _, _)
Register(times, k, entries) ==
  IF k > Len(times) THEN entries
  ELSE LET scheduleTime == TrimRight(TrimLeft(Chars(times[k])))
           parts == Split(scheduleTime, ":")
       IN IF scheduleTime = <<>> THEN Register(times, k + 1, entries)
          ELSE IF Len(parts) # 2 THEN Register(times, k + 1, entries)
          ELSE LET a == AddFunc(entries, parts[1], parts[2])
               IN IF a.err THEN Register(times, k + 1, entries)
                  ELSE Register(times, k + 1, a.entries)

\* main: cronScheduler.Start() before the server starts; it returns nil.
Start ==
  /\ cronState = "new"
  /\ scheduleTimes # <<>>
  /\ cronEntries' = Register(scheduleTimes, 1, <<>>)
  /\ cronState' = "running"
  /\ UNCHANGED <<StockSymbols, signalCache, now, sink, runVars, taskVars,
                 SignalCooldownMins, canGenerate, request, libVars,
                 scheduleTimes, firings, scheduleInfo, exited,
                 inFlightAtStop>>

\* Variant: the trigger starts the per-symbol batch.
executeTradingSignalAll(e, t) ==
  /\ cronState = "running"
  /\ ~exited
  /\ Len(firings) < MaxFirings
  /\ GenerateAllSignals(t)
  /\ firings' = Append(firings, [entry |-> e, task |-> t])
  /\ UNCHANGED <<request, scheduleTimes, cronEntries, cronState, scheduleInfo,
                 exited, inFlightAtStop>>

\* The time of entry e arrives while cron runs: its function calls
\* executeTradingSignal, which calls GenerateAllSignalsSummary.
executeTradingSignal(e, t) ==
  /\ cronState = "running"
  /\ ~exited
  /\ Len(firings) < MaxFirings
  /\ GenerateAllSignalsSummary(t)
  /\ firings' = Append(firings, [entry |-> e, task |-> t])
  /\ UNCHANGED <<request, scheduleTimes, cronEntries, cronState, scheduleInfo,
                 exited, inFlightAtStop>>

\* Variant: Stop also ends the runs in flight.
StopCancels ==
  /\ cronState = "running"
  /\ cronState' = "stopped"
  /\ inFlightAtStop' = {t \in Tasks : pc[t] \notin {"idle", "done"}}
  /\ pc' = [t \in Tasks |-> IF pc[t] = "idle" THEN "idle" ELSE "done"]
  /\ UNCHANGED <<StockSymbols, signalCache, now, sink, runVars, kind, symbol,
                 ohlcData, result, startedAt, calls,
                 SignalCooldownMins, canGenerate, request, libVars,
                 scheduleTimes, cronEntries, firings, scheduleInfo, exited>>

\* main, on SIGINT / SIGTERM: cronScheduler.Stop().
Stop ==
  /\ cronState = "running"
  /\ cronState' = "stopped"
  /\ inFlightAtStop' = {t \in Tasks : pc[t] \notin {"idle", "done"}}
  /\ UNCHANGED <<StockSymbols, signalCache, now, sink, runVars, taskVars,
                 SignalCooldownMins, canGenerate, request, libVars,
                 scheduleTimes, cronEntries, firings, scheduleInfo, exited>>

\* main returns after Stop and server.Shutdown: the process ends with its
\* goroutines.
Exit ==
  /\ cronState = "stopped"
  /\ ~exited
  /\ exited' = TRUE
  /\ UNCHANGED <<StockSymbols, signalCache, now, sink, runVars, taskVars,
                 SignalCooldownMins, canGenerate, request, libVars,
                 scheduleTimes, cronEntries, cronState, firings, scheduleInfo,
                 inFlightAtStop>>

\* entry.Next: the hours and minutes of the day the entry fires at next.
NextRun(entry) == [hour |-> entry.hour, minute |-> entry.minute]

\* GetNextRuns
GetNextRuns(entries) == [k \in 1..Len(entries) |-> NextRun(entries[k])]

\* Variant: only the times that were registered are reported.
GetScheduleInfoRegistered ==
  /\ cronState # "new"
  /\ ~exited
  /\ scheduleInfo' =
       <<[configured_times |->
            SelectSeq(scheduleTimes,
                      LAMBDA s : Register(<<s>>, 1, <<>>) # <<>>),
          active_jobs |-> Len(cronEntries),
          next_runs |-> GetNextRuns(cronEntries)]>>
  /\ UNCHANGED <<StockSymbols, signalCache, now, sink, runVars, taskVars,
                 SignalCooldownMins, canGenerate, request, libVars,
                 scheduleTimes, cronEntries, cronState, firings, exited,
                 inFlightAtStop>>

\* GET /cron-status: GetCronStatus returns GetScheduleInfo().
GetScheduleInfo ==
  /\ cronState # "new"
  /\ ~exited
  /\ scheduleInfo' = <<[configured_times |-> scheduleTimes,
                        active_jobs |-> Len(cronEntries),
                        next_runs |-> GetNextRuns(cronEntries)]>>
  /\ UNCHANGED <<StockSymbols, signalCache, now, sink, runVars, taskVars,
                 SignalCooldownMins, canGenerate, request, libVars,
                 scheduleTimes, cronEntries, cronState, firings, exited,
                 inFlightAtStop>>

\* The run of task t can go on while the process lives: one of its calls
\* returns, or the clock moves towards the end of its sleep.
RunStep(t) ==
  /\ ~exited
  /\ \/ RequestReceivedReturn(t)
     \/ FetchReturn(t)
     \/ InferReturn(t)
     \/ SleepReturn(t)
     \/ SummaryReturn(t)
     \/ Tick

\* The inference answers explored where runs are started by the scheduler
\* or run side by side: a failure, a BUY and a HOLD of confidence 80.
SampledDirections == {Chars("BUY"), Chars("HOLD")}
Sampled(t) ==
  LET c == calls[t][Len(calls[t])]
  IN c.op = "infer" /\ ~c.err =>
       /\ c.out.signal.Signal \in SampledDirections
       /\ c.out.signal.Confidence = 80

InitCron ==
  /\ Boot
  /\ SignalCooldownMins = DefaultCooldownMins
  /\ scheduleTimes \in ScheduleLists

NextCron ==
  \/ Start
  \/ \E e \in 1..Len(cronEntries), t \in Tasks : executeTradingSignal(e, t)
  \/ GetScheduleInfo
  \/ Stop
  \/ Exit
  \/ \E t \in Active : ~exited /\ RequestReceivedReturn(t)
  \/ \E t \in Active : ~exited /\ FetchReturn(t)
  \/ \E t \in Active : ~exited /\ InferReturn(t) /\ Sampled(t)'
  \/ \E t \in Active : ~exited /\ SleepReturn(t)
  \/ \E t \in Active : ~exited /\ SummaryReturn(t)
  \/ ~exited /\ Tick

SpecCron == InitCron /\ [][NextCron]_vars

\* ------------------------------------------------- Batch runs side by side
\* The answers explored where two runs go side by side: the sampled
\* inference answers, and deliveries that Telegram accepts.
SampledDelivery == sink[Len(sink)].ok

\* Two goroutines started by any two triggers (a cron firing, /bulk,
\* /summary, GET /signals or /signals/summary) step in any order.
NextPair ==
  \/ \E t \in Tasks :
       GenerateAllSignals(t) /\ UNCHANGED <<request, cronVars>>
  \/ \E t \in Tasks :
       GenerateAllSignalsSummary(t) /\ UNCHANGED <<request, cronVars>>
  \/ \E t \in Tasks : RequestReceivedReturn(t) /\ SampledDelivery'
  \/ \E t \in Tasks : FetchReturn(t)
  \/ \E t \in Tasks : InferReturn(t) /\ Sampled(t)'
  \/ \E t \in Tasks : SleepReturn(t)
  \/ \E t \in Tasks : SummaryReturn(t) /\ SampledDelivery'
  \/ Tick

\* MaxSymbols symbols are configured, the first and the last different.
InitPair ==
  /\ Init
  /\ Len(StockSymbols) = MaxSymbols
  /\ StockSymbols[1] # StockSymbols[MaxSymbols]

SpecPair == InitPair /\ [][NextPair]_vars

\* ------------------------------------------------- Quote Source alone
\* Answers of the endpoint with up to two bars: timestamps in either
\* order, arrays that are complete, cut short or hold a zero.
FetchAnswers ==
  [fail : BOOLEAN, results : {0, 1}, quotes : {0, 1},
   timestamp : {<<1, 2>>, <<2, 1>>, <<1>>},
   open : {<<5, 5>>, <<0, 5>>, <<5>>},
   high : {<<6, 6>>, <<6, 0>>},
   low : {<<4, 4>>, <<4>>},
   close : {<<5, 5>>, <<5, 0>>},
   volume : {<<9, 0>>, <<>>}]

\* One call of FetchOHLCData, answered by resp.
Fetch(resp) ==
  /\ fetched' = <<[resp |-> resp, out |-> FetchOHLCData(resp)]>>
  /\ UNCHANGED <<StockSymbols, signalCache, now, sink, runVars, taskVars,
                 SignalCooldownMins, canGenerate, request, presented, mu,
                 cacheCall, cronVars>>

NextFetch == \E resp \in FetchAnswers : Fetch(resp)

SpecFetch == Init /\ [][NextFetch]_vars

\* ------------------------------------------------- All entry points
\* Every way into the orchestrator: GetSignal, the batch handlers, the
\* webhook commands and the firings of a started scheduler.
InitAll ==
  /\ Boot
  /\ SignalCooldownMins = DefaultCooldownMins
  /\ scheduleTimes = <<"08:30", "14:45">>

NextAll ==
  \/ \E t \in Active, sym \in Symbols : GenerateSignal(t, sym)
  \/ \E r \in Requests, text \in InboundTexts : TelegramWebhook(r, text)
  \/ \E r \in Requests : ResponseReturn(r)
  \/ \E r \in Requests : GetSignalAll(r)
  \/ \E r \in Requests : GetSignalAllSummary(r)
  \/ Start
  \/ \E e \in 1..Len(cronEntries), t \in Tasks : executeTradingSignal(e, t)
  \/ \E t \in Active : AnalyzingReturn(t)
  \/ \E t \in Active : RequestReceivedReturn(t)
  \/ \E t \in Active : FetchReturn(t)
  \/ \E t \in Active : InferReturn(t) /\ Sampled(t)'
  \/ \E t \in Active : ReplyReturn(t)
  \/ \E t \in Active : ReportReturn(t)
  \/ \E t \in Active : SleepReturn(t)
  \/ \E t \in Active : SummaryReturn(t)
  \/ Tick

SpecAll == InitAll /\ [][NextAll]_vars

\* ---------------------------------------------------------- properties
IsBatch(t) == kind[t] \in {"all", "summary"}
Built(t) == Len(summary[t]) = 1
Positions(t) == 1..Len(calls[t])

\* Symbol number k of the run has been fetched / has failed / is finished.
Fetched(t, k) ==
  \E p \in Positions(t) : calls[t][p].op = "fetch" /\ calls[t][p].i = k
FailedAt(t, k) ==
  \E p \in Positions(t) : calls[t][p].i = k /\ calls[t][p].err
SucceededAt(t, k) ==
  \E p \in Positions(t) :
     calls[t][p].op = "infer" /\ calls[t][p].i = k /\ ~calls[t][p].err
Finished(t, k) == FailedAt(t, k) \/ SucceededAt(t, k)

\* The signals the inference calls of a log returned, in call order.
RECURSIVE SignalsOf(_)
SignalsOf(log) ==
  IF log = <<>> THEN <<>>
  ELSE LET e == Head(log)
       IN IF e.op = "infer" /\ ~e.err
          THEN <<e.out.signal>> \o SignalsOf(Tail(log))
          ELSE SignalsOf(Tail(log))

\* The symbols whose fetch or inference failed, in call order.
RECURSIVE FailuresOf(_)
FailuresOf(log) ==
  IF log = <<>> THEN <<>>
  ELSE LET e == Head(log)
       IN IF e.err THEN <<e.symbol>> \o FailuresOf(Tail(log))
          ELSE FailuresOf(Tail(log))

\* Case-insensitive comparison of two direction strings.
CasePairs == {{"b", "B"}, {"u", "U"}, {"y", "Y"}}
EqualFold(a, b) ==
  /\ Len(a) = Len(b)
  /\ \A k \in 1..Len(a) : a[k] = b[k] \/ {a[k], b[k]} \in CasePairs
ExpectedBucket(sig) ==
  IF EqualFold(sig.Signal, Chars("BUY")) THEN "buy"
  ELSE IF EqualFold(sig.Signal, Chars("SELL")) THEN "sell"
  ELSE "hold"
Expected(log, bucket) ==
  SelectSeq(SignalsOf(log), LAMBDA x : ExpectedBucket(x) = bucket)

\* C1: in every summary a batch run builds (either variant), the sizes of
\* the buy, sell, hold and failed collections add up to TotalAnalyzed.
CountInvariant ==
  \A t \in Tasks : Built(t) =>
     LET s == summary[t][1]
     IN Len(s.BuySignals) + Len(s.SellSignals) + Len(s.HoldSignals)
          + Len(s.FailedSignals) = s.TotalAnalyzed

CountWitness ==
  \E t \in Tasks :
     /\ kind[t] = "all" /\ Built(t)
     /\ Len(summary[t][1].HoldSignals) = 1
     /\ Len(summary[t][1].FailedSignals) = 1

\* C2: every signal an inference call returned sits in the bucket its
\* direction names when compared without regard to case (BUY: buy, SELL:
\* sell, anything else: hold), in the run's buckets and in its summary; no
\* direction drops the signal or marks the symbol failed.
ClassificationRule ==
  \A t \in Tasks : IsBatch(t) =>
     /\ buySignals[t] = Expected(calls[t], "buy")
     /\ sellSignals[t] = Expected(calls[t], "sell")
     /\ holdSignals[t] = Expected(calls[t], "hold")
     /\ failedSignals[t] = FailuresOf(calls[t])
     /\ Built(t) =>
          /\ summary[t][1].BuySignals = Expected(calls[t], "buy")
          /\ summary[t][1].SellSignals = Expected(calls[t], "sell")
          /\ summary[t][1].HoldSignals = Expected(calls[t], "hold")

ClassificationWitness ==
  \E t \in Tasks :
     /\ IsBatch(t) /\ Built(t)
     /\ \E k \in 1..Len(summary[t][1].BuySignals) :
          summary[t][1].BuySignals[k].Signal = Chars("buy")
     /\ \E k \in 1..Len(summary[t][1].HoldSignals) :
          summary[t][1].HoldSignals[k].Signal = Chars("UP")

\* C3: a symbol that fails at fetch or at inference does not end the run:
\* a summary is built only when every symbol of the list has been fetched
\* and is finished, its TotalAnalyzed is the length of the list, and every
\* failed symbol is in FailedSignals, once per failure.
FailureIsolation ==
  \A t \in Tasks : IsBatch(t) /\ Built(t) =>
     LET s == summary[t][1]
     IN /\ s.TotalAnalyzed = N
        /\ \A k \in 1..N : Fetched(t, k) /\ Finished(t, k)
        /\ \A k \in 1..N : FailedAt(t, k) =>
              \E j \in 1..Len(s.FailedSignals) :
                 s.FailedSignals[j] = StockSymbols[k]
        /\ Len(s.FailedSignals) = Cardinality({k \in 1..N : FailedAt(t, k)})

FailureIsolationWitness ==
  \E t \in Tasks :
     /\ kind[t] = "summary" /\ pc[t] = "done" /\ N = 2
     /\ FailedAt(t, 1) /\ SucceededAt(t, 2)
     /\ summary[t][1].FailedSignals = <<StockSymbols[1]>>

\* C4: a batch run over N symbols sleeps exactly N-1 times, and at least
\* (N-1)*3 seconds pass between its start and its summary, whatever the
\* outcomes of its symbols.
ThrottleEveryPair ==
  \A t \in Tasks : IsBatch(t) /\ Built(t) =>
     /\ sleeps[t] = N - 1
     /\ summary[t][1].GeneratedAt - startedAt[t] >= (N - 1) * SleepSeconds

\* C5: within one run the upstream calls follow the configured list, one
\* symbol at a time: every call is for the symbol at its index, indexes
\* never go back and none is skipped, a symbol is fetched once and inferred
\* at most once, right after its own successful fetch, and a call is in
\* flight for symbol i only when every earlier symbol is finished.
SequentialOrder ==
  \A t \in Tasks : IsBatch(t) =>
     /\ \A p \in Positions(t) :
          /\ calls[t][p].i \in 1..N
          /\ calls[t][p].symbol = StockSymbols[calls[t][p].i]
          /\ \A k \in 1..calls[t][p].i : Fetched(t, k)
          /\ calls[t][p].op = "infer" =>
               /\ p > 1
               /\ calls[t][p - 1].op = "fetch"
               /\ calls[t][p - 1].i = calls[t][p].i
               /\ ~calls[t][p - 1].err
     /\ \A p, q \in Positions(t) : p < q =>
          \/ calls[t][p].i < calls[t][q].i
          \/ /\ calls[t][p].i = calls[t][q].i
             /\ calls[t][p].op = "fetch" /\ calls[t][q].op = "infer"
     /\ pc[t] = "fetching" =>
          /\ symbol[t] = StockSymbols[idx[t]]
          /\ \A k \in 1..N : Fetched(t, k) <=> k < idx[t]
          /\ \A k \in 1..(idx[t] - 1) : Finished(t, k)
     /\ pc[t] = "inferring" =>
          /\ symbol[t] = StockSymbols[idx[t]]
          /\ \A k \in 1..N : Fetched(t, k) <=> k <= idx[t]
          /\ \A k \in 1..N : Finished(t, k) <=> k < idx[t]

SequentialOrderWitness ==
  \E t \in Tasks :
     /\ kind[t] = "all" /\ pc[t] = "inferring" /\ idx[t] = 2
     /\ StockSymbols = <<"B", "A">>
     /\ SucceededAt(t, 1)

\* C6: a batch run delivers its summary exactly once, after the loop: no
\* summary delivery is attempted before the run has built its one summary
\* from all N finished symbols, exactly one has been attempted when the run
\* is over, and what is delivered is the summary the run built.
SummaryEntries(t) ==
  {p \in 1..Len(sink) : sink[p].task = t /\ sink[p].msg = "summary"}

SummaryOnce ==
  \A t \in Tasks : IsBatch(t) =>
     /\ Cardinality(SummaryEntries(t)) = IF pc[t] = "done" THEN 1 ELSE 0
     /\ Built(t) <=> pc[t] \in {"sending", "done"}
     /\ Built(t) => \A k \in 1..N : Fetched(t, k) /\ Finished(t, k)
     /\ \A p \in SummaryEntries(t) :
          Built(t) /\ sink[p].summary = summary[t][1]

SummaryOnceWitness ==
  \E t \in Tasks :
     /\ kind[t] = "all" /\ pc[t] = "done" /\ N = 2
     /\ \E p \in SummaryEntries(t) : ~sink[p].ok
     /\ SucceededAt(t, 1) /\ SucceededAt(t, 2)

\* C7: for the list [A, B], when the fetch for A returns bars, the
\* inference for A returns BUY with confidence 80 and the fetch for B fails,
\* the summary-only run delivers a summary with TotalAnalyzed 2, the signal
\* of A as its only buy entry, no sell and no hold entry, and failed = [B].
ScenarioAB(t) ==
  /\ kind[t] = "summary"
  /\ StockSymbols = <<"A", "B">>
  /\ Len(calls[t]) = 3
  /\ calls[t][1].op = "fetch" /\ calls[t][1].symbol = "A" /\ ~calls[t][1].err
  /\ calls[t][2].op = "infer" /\ calls[t][2].symbol = "A" /\ ~calls[t][2].err
  /\ calls[t][2].out.signal.Signal = Chars("BUY")
  /\ calls[t][2].out.signal.Confidence = 80
  /\ calls[t][3].op = "fetch" /\ calls[t][3].symbol = "B" /\ calls[t][3].err

EndToEnd ==
  \A t \in Tasks : ScenarioAB(t) /\ pc[t] = "done" =>
     /\ SummaryEntries(t) # {}
     /\ \A p \in SummaryEntries(t) :
          LET s == sink[p].summary
          IN /\ s.TotalAnalyzed = 2
             /\ Len(s.BuySignals) = 1
             /\ s.BuySignals[1].StockSymbol = "A"
             /\ s.BuySignals[1].Signal = Chars("BUY")
             /\ s.BuySignals[1].Confidence = 80
             /\ s.SellSignals = <<>>
             /\ s.HoldSignals = <<>>
             /\ s.FailedSignals = <<"B">>

EndToEndWitness ==
  \E t \in Tasks :
     /\ ScenarioAB(t) /\ pc[t] = "done"
     /\ \E p \in SummaryEntries(t) : sink[p].ok

\* C8: GenerateSignal fetches once; after a failed or empty fetch it
\* returns an error and inference is not called; otherwise inference is
\* called once, with exactly the bars the fetch returned, and GenerateSignal
\* returns an error when inference failed and the inferred signal otherwise.
SingleAttempt ==
  \A t \in Tasks : kind[t] \in {"single", "all"} =>
     /\ \A p, q \in Positions(t) :
          p # q /\ calls[t][p].op = calls[t][q].op =>
             calls[t][p].i # calls[t][q].i
     /\ \A p \in Positions(t) : calls[t][p].op = "infer" =>
          /\ p > 1
          /\ calls[t][p - 1].op = "fetch"
          /\ calls[t][p - 1].i = calls[t][p].i
          /\ calls[t][p - 1].symbol = calls[t][p].symbol
          /\ ~calls[t][p - 1].err
          /\ Len(calls[t][p - 1].bars) > 0
          /\ calls[t][p].bars = calls[t][p - 1].bars
     /\ kind[t] = "single" =>
          /\ pc[t] # "done" => result[t] = <<>>
          /\ pc[t] = "done" =>
               /\ Len(result[t]) = 1
               /\ calls[t][1].op = "fetch"
               /\ calls[t][1].symbol = symbol[t]
               /\ IF calls[t][1].err \/ Len(calls[t][1].bars) = 0
                  THEN Len(calls[t]) = 1 /\ result[t][1].err
                  ELSE /\ Len(calls[t]) = 2
                       /\ result[t][1].err = calls[t][2].err
                       /\ ~calls[t][2].err =>
                            /\ result[t][1].signal = calls[t][2].out.signal
                            /\ result[t][1].signal.StockSymbol = symbol[t]

SingleAttemptWitness ==
  \E t \in Tasks :
     /\ kind[t] = "single" /\ pc[t] = "done"
     /\ Len(calls[t]) = 2 /\ Len(calls[t][2].bars) = 2
     /\ ~result[t][1].err

SingleAttemptFailedWitness ==
  \E t \in Tasks :
     /\ kind[t] = "single" /\ pc[t] = "done"
     /\ Len(calls[t]) = 1 /\ result[t][1].err

\* C9: no step of GenerateSignal (its call, the return of its fetch, the
\* return of its inference), alone or inside GenerateAllSignals, delivers
\* anything to Telegram or changes signalCache.
GenerateSignalStep(t) ==
  /\ kind'[t] \in {"single", "all"}
  /\ pc[t] \in {"idle", "fetching", "inferring"}
  /\ pc'[t] # pc[t] \/ calls'[t] # calls[t]

NoSideEffect ==
  [][\A t \in Tasks : GenerateSignalStep(t) =>
        sink' = sink /\ signalCache' = signalCache]_vars

NoSideEffectWitness ==
  \E t \in Tasks :
     /\ kind[t] = "single" /\ pc[t] = "done"
     /\ Len(result[t]) = 1 /\ ~result[t][1].err
     /\ sink = <<>> /\ DOMAIN signalCache = {}

\* C10: GenerateAllSignals delivers every signal it generates to Telegram,
\* and its summary after them.
PerSymbolDelivery ==
  \A t \in Tasks : kind[t] = "all" =>
     \A p \in Positions(t) : calls[t][p].op = "infer" /\ ~calls[t][p].err =>
        \E q \in 1..Len(sink) :
           /\ sink[q].task = t /\ sink[q].msg = "signal"
           /\ sink[q].signal = calls[t][p].out.signal
           /\ \A r \in SummaryEntries(t) : q < r

\* C11: the summary-only run attempts exactly one "request accepted"
\* notification, carrying the number of configured symbols, before its
\* first fetch; whether or not it was delivered, the run then processes
\* every symbol.  The per-symbol run attempts none.
AcceptedEntries(t) ==
  {p \in 1..Len(sink) : sink[p].task = t /\ sink[p].msg = "accepted"}

AcceptedFirst ==
  \A t \in Tasks :
     /\ kind[t] = "all" => AcceptedEntries(t) = {}
     /\ kind[t] = "summary" =>
          /\ Cardinality(AcceptedEntries(t)) =
               IF pc[t] = "accepting" THEN 0 ELSE 1
          /\ \A p \in AcceptedEntries(t) :
               /\ sink[p].total = N
               /\ \A q \in SummaryEntries(t) : p < q
          /\ pc[t] = "accepting" => calls[t] = <<>>
          /\ pc[t] = "done" => \A k \in 1..N : Fetched(t, k) /\ Finished(t, k)

AcceptedFirstWitness ==
  \E t \in Tasks :
     /\ kind[t] = "summary" /\ pc[t] = "done" /\ N = 2
     /\ \E p \in AcceptedEntries(t) : ~sink[p].ok
     /\ Fetched(t, 1) /\ Fetched(t, 2)

\* C13: a delivery of a batch run (the "request accepted" notification or
\* the summary) is attempted once and never again, and its outcome changes
\* nothing else: the step that returns from it leaves the buckets, the
\* failed list and the built summary as they were, and the run goes on to
\* its first symbol (after the notification) or ends (after the summary)
\* whether the delivery succeeded or failed.
DeliveryStep(t) ==
  /\ IsBatch(t)
  /\ Len(sink') = Len(sink) + 1
  /\ sink'[Len(sink')].task = t

DeliveryIsolated ==
  [][\A t \in Tasks : DeliveryStep(t) =>
        LET e == sink'[Len(sink')]
        IN /\ \A p \in 1..Len(sink) :
                sink[p].task = t => sink[p].msg # e.msg
           /\ buySignals'[t] = buySignals[t]
           /\ sellSignals'[t] = sellSignals[t]
           /\ holdSignals'[t] = holdSignals[t]
           /\ failedSignals'[t] = failedSignals[t]
           /\ e.msg = "accepted" =>
                /\ pc'[t] = "fetching" /\ idx'[t] = 1
                /\ failedSignals'[t] = <<>> /\ summary'[t] = <<>>
           /\ e.msg = "summary" =>
                /\ pc'[t] = "done"
                /\ summary'[t] = summary[t]
                /\ e.summary = summary[t][1]
                /\ e.summary.TotalAnalyzed = N
                /\ e.summary.FailedSignals = FailuresOf(calls[t])]_vars

DeliveryIsolatedWitness ==
  \E t \in Tasks :
     /\ kind[t] = "summary" /\ pc[t] = "done"
     /\ \E p \in AcceptedEntries(t) : ~sink[p].ok
     /\ \E p \in SummaryEntries(t) :
          /\ ~sink[p].ok
          /\ Len(sink[p].summary.BuySignals) = 1
          /\ sink[p].summary.FailedSignals = <<>>

CooldownCycleAnyWindow ==
  canGenerate # <<>> =>
     LET c == canGenerate[1]
     IN /\ c.symbol \notin DOMAIN signalCache => c.value
        /\ c.symbol \in DOMAIN signalCache =>
             /\ now = signalCache[c.symbol] => ~c.value
             /\ now - signalCache[c.symbol] >= SignalCooldownMins * MinuteSeconds
                  => c.value

\* C18 as amended: the same, with "false when no time has passed" only for
\* a window of at least one minute.
CooldownCycle ==
  canGenerate # <<>> =>
     LET c == canGenerate[1]
     IN /\ c.symbol \notin DOMAIN signalCache => c.value
        /\ c.symbol \in DOMAIN signalCache =>
             /\ SignalCooldownMins >= 1 /\ now = signalCache[c.symbol]
                  => ~c.value
             /\ now - signalCache[c.symbol] >= SignalCooldownMins * MinuteSeconds
                  => c.value

CooldownCycleWitness ==
  /\ canGenerate # <<>>
  /\ SignalCooldownMins = 1
  /\ canGenerate[1].symbol \in DOMAIN signalCache
  /\ now = signalCache[canGenerate[1].symbol]
  /\ now > 0
  /\ ~canGenerate[1].value

\* C19: once a signal has been generated for a symbol, a run generates no
\* further signal for that symbol before the cooldown has passed.
CooldownProtection ==
  \A t \in Tasks : \A p, q \in Positions(t) :
     /\ p < q
     /\ calls[t][p].op = "infer" /\ ~calls[t][p].err
     /\ calls[t][q].op = "infer" /\ ~calls[t][q].err
     /\ calls[t][p].symbol = calls[t][q].symbol
     => calls[t][q].out.signal.GeneratedAt
          >= calls[t][p].out.signal.GeneratedAt
               + SignalCooldownMins * MinuteSeconds

\* C20: every signal delivered to Telegram, alone or inside a summary, has
\* a confidence of at least the configured minimum.
Confident(signals) ==
  \A k \in 1..Len(signals) : signals[k].Confidence >= MinConfidenceLevel

ConfidenceFilter ==
  \A p \in 1..Len(sink) :
     /\ sink[p].msg = "signal" => sink[p].signal.Confidence >= MinConfidenceLevel
     /\ sink[p].msg = "summary" =>
          /\ Confident(sink[p].summary.BuySignals)
          /\ Confident(sink[p].summary.SellSignals)
          /\ Confident(sink[p].summary.HoldSignals)

\* The delivery attempts the handler of request r made itself, and the
\* attempts of task t, in order.
HandlerEntries(r) ==
  {p \in 1..Len(sink) : sink[p].task = 0 /\ sink[p].req = r}

TaskEntries(t) == SelectSeq(sink, LAMBDA e : e.task = t)
TaskMsgs(t) == [k \in 1..Len(TaskEntries(t)) |-> TaskEntries(t)[k].msg]

\* C12 as stated: whatever the branch and whether or not the response text
\* was delivered, a webhook call with a message is answered with HTTP 200.
DeliveryNeverEscalated ==
  \A r \in Requests :
     request[r].route = "webhook" /\ request[r].pc = "responded"
     => request[r].status = StatusOK

\* C12 as amended: a failed delivery of the response text is not retried
\* and leaves the started batch running, but the branches that deliver
\* their text from the handler (/start, /help, /stocks, /bulk, /summary,
\* unknown command) answer HTTP 500 when that delivery failed and 200 when
\* it succeeded; the bare-symbol branch always answers 200.
DeliveryEscalation ==
  \A r \in Requests :
     LET q == request[r]
     IN q.route = "webhook" /\ q.pc = "responded" =>
          IF q.branch = "symbol"
          THEN q.status = StatusOK /\ HandlerEntries(r) = {}
          ELSE /\ Cardinality(HandlerEntries(r)) = 1
               /\ \A p \in HandlerEntries(r) :
                    q.status = IF sink[p].ok THEN StatusOK
                               ELSE StatusInternalServerError
               /\ q.branch \in {"bulk", "summary"} =>
                    /\ pc[q.task] # "idle"
                    /\ pc[q.task] = "done" =>
                         \A k \in 1..N : Fetched(q.task, k)

DeliveryEscalationWitness ==
  \E r \in Requests :
     /\ request[r].branch = "bulk"
     /\ request[r].status = StatusInternalServerError
     /\ pc[request[r].task] = "done"
     /\ N = 2
     /\ Len(buySignals[request[r].task]) = 2

\* C14: for /bulk and /summary the handler, once it waits for the delivery
\* of its acknowledgment text, can answer whatever the started run is
\* doing; for a bare symbol, GET /signal-all and GET /signal-all-summary
\* the call is answered 200 in the step that starts the work, before any
\* fetch or inference of that work.
AckIndependent ==
  \A r \in Requests :
     LET q == request[r]
     IN /\ q.pc = "sending" => ENABLED ResponseReturn(r)
        /\ q.task # 0 /\ (q.branch = "symbol" \/ q.route # "webhook") =>
             q.pc = "responded" /\ q.status = StatusOK
        /\ q.task # 0 /\ q.pc = "idle" => FALSE

AckIndependentWitness ==
  \E r \in Requests :
     /\ request[r].branch = "summary"
     /\ request[r].pc = "responded"
     /\ request[r].status = StatusOK
     /\ pc[request[r].task] = "accepting"
     /\ calls[request[r].task] = <<>>

\* C15: what the claim expects of an inbound text, stated on the text
\* itself: its core is the text between the leading and the trailing
\* whitespace.
IsCoreOf(u, s) ==
  LET cu == Chars(u)
      cs == Chars(s)
  IN /\ cu # <<>> => cu[1] \notin WhiteSpace /\ cu[Len(cu)] \notin WhiteSpace
     /\ \E i \in 0..Len(cs) :
          /\ i + Len(cu) <= Len(cs)
          /\ \A k \in 1..Len(cu) : cs[i + k] = cu[k]
          /\ \A k \in 1..Len(cs) :
               (k <= i \/ k > i + Len(cu)) => cs[k] \in WhiteSpace

Core(s) == CHOOSE u \in Strings : IsCoreOf(u, s)

ExpectedBranch(u) ==
  CASE u = "/start" -> "start"
    [] u = "/help" -> "help"
    [] u = "/stocks" -> "stocks"
    [] u = "/bulk" -> "bulk"
    [] u = "/summary" -> "summary"
    [] OTHER -> IF u # "" /\ Chars(u)[1] # "/" THEN "symbol" ELSE "unknown"

ExpectedText(b) ==
  CASE b = "start" -> "welcome"
    [] b = "help" -> "help"
    [] b = "stocks" -> "stocks"
    [] b = "bulk" -> "bulk_started"
    [] b = "summary" -> "summary_started"
    [] b = "unknown" -> "unknown"
    [] OTHER -> NoValue

\* C15: a webhook text takes exactly the branch of its trimmed text: the
\* handler delivers at most the one text of that branch, /bulk starts one
\* per-symbol batch, /summary one summary-only batch, a bare symbol one
\* single-symbol generation for the trimmed text, and /start, /help,
\* /stocks and everything else start nothing.
OneBranch ==
  /\ \A r \in Requests :
       LET q == request[r]
           u == Core(q.text)
           b == ExpectedBranch(u)
       IN q.route = "webhook" =>
            /\ q.branch = b
            /\ Cardinality(HandlerEntries(r)) =
                 IF b = "symbol" \/ q.pc = "sending" THEN 0 ELSE 1
            /\ \A p \in HandlerEntries(r) :
                 /\ sink[p].msg = ExpectedText(b)
                 /\ b = "stocks" => sink[p].list = StockSymbols
            /\ b \in {"start", "help", "stocks", "unknown"} => q.task = 0
            /\ b = "bulk" => q.task \in Tasks /\ kind[q.task] = "all"
            /\ b = "summary" => q.task \in Tasks /\ kind[q.task] = "summary"
            /\ b = "symbol" =>
                 /\ q.task \in Tasks
                 /\ kind[q.task] = "symbol"
                 /\ symbol[q.task] = u
  /\ \A t \in Tasks :
       pc[t] # "idle" =>
          Cardinality({r \in Requests : request[r].task = t}) = 1

OneBranchWitness ==
  \E r \in Requests :
     /\ request[r].text = " /bulk "
     /\ request[r].pc = "responded"
     /\ kind[request[r].task] = "all"
     /\ \E p \in HandlerEntries(r) : sink[p].msg = "bulk_started"

\* What handleStockSymbolRequest has got from its GenerateSignal call.
FetchCalls(t) == {p \in Positions(t) : calls[t][p].op = "fetch"}
InferCalls(t) == {p \in Positions(t) : calls[t][p].op = "infer"}
Generated(t) == pc[t] \in {"replying", "reporting", "done"}

\* C16 as stated: a finished bare-symbol task has attempted the analyzing
\* message and then exactly one more message: the signal when generation
\* succeeded, the failure message when it failed.
SymbolReplyOnce ==
  \A t \in Tasks :
     kind[t] = "symbol" /\ pc[t] = "done" =>
        TaskMsgs(t) = IF result[t][1].err
                      THEN <<"analyzing", "analyze_failed">>
                      ELSE <<"analyzing", "signal">>

\* C16 as amended: the analyzing message is attempted before the one
\* GenerateSignal call; after a failed generation exactly the failure
\* message naming the symbol follows and never a signal; after a successful
\* generation the signal follows, and when its delivery failed one
\* "failed to send" message naming the symbol follows it.
SymbolReply ==
  \A t \in Tasks :
     kind[t] = "symbol" =>
        /\ pc[t] = "analyzing" => calls[t] = <<>> /\ TaskMsgs(t) = <<>>
        /\ pc[t] \in {"fetching", "inferring", "replying"} =>
             TaskMsgs(t) = <<"analyzing">>
        /\ Generated(t) =>
             /\ Cardinality(FetchCalls(t)) = 1
             /\ Cardinality(InferCalls(t)) =
                  IF calls[t][1].err THEN 0 ELSE 1
             /\ result[t][1].err = calls[t][Len(calls[t])].err
        /\ \A k \in 1..Len(TaskEntries(t)) :
             TaskEntries(t)[k].symbol = symbol[t]
        /\ pc[t] = "reporting" =>
             /\ TaskMsgs(t) = <<"analyzing", "signal">>
             /\ ~TaskEntries(t)[2].ok
        /\ pc[t] = "done" =>
             IF result[t][1].err
             THEN TaskMsgs(t) = <<"analyzing", "analyze_failed">>
             ELSE /\ TaskEntries(t)[2].signal = result[t][1].signal
                  /\ TaskMsgs(t) = IF TaskEntries(t)[2].ok
                                   THEN <<"analyzing", "signal">>
                                   ELSE <<"analyzing", "signal", "send_failed">>

SymbolReplyWitness ==
  \E t \in Tasks :
     /\ kind[t] = "symbol"
     /\ pc[t] = "done"
     /\ symbol[t] = "B"
     /\ TaskMsgs(t) = <<"analyzing", "signal", "send_failed">>

SymbolReplyFailedWitness ==
  \E t \in Tasks :
     /\ kind[t] = "symbol"
     /\ pc[t] = "done"
     /\ TaskMsgs(t) = <<"analyzing", "analyze_failed">>
     /\ Cardinality(InferCalls(t)) = 1

\* The risk and the reward of a BUY or SELL signal as the claim reads them.
RiskOf(signal) ==
  IF signal.Signal = Chars("BUY") THEN signal.BuyPrice - signal.StopLoss
  ELSE signal.StopLoss - signal.BuyPrice

RewardOf(signal) ==
  IF signal.Signal = Chars("BUY") THEN signal.TargetPrice - signal.BuyPrice
  ELSE signal.BuyPrice - signal.TargetPrice

RatioParts(message) ==
  {k \in 1..Len(message) :
     \/ message[k].part = "risk_reward"
     \/ message[k].part \in {"buy", "sell"} /\ message[k].ratio # <<>>}

\* C21: the message and the summary line of a BUY or SELL signal whose risk
\* or reward is not positive contain no risk-reward ratio.
RatioOmitted ==
  presented # <<>> =>
     LET signal == presented[1].signal
     IN /\ signal.Signal \in {Chars("BUY"), Chars("SELL")}
        /\ (RiskOf(signal) <= 0 \/ RewardOf(signal) <= 0)
        => RatioParts(presented[1].message) = {}

\* The configured entries that split in two fields the cron parser takes,
\* with the hours and minutes they stand for.
WellFormed == {"08:30", " 08:30 ", "14:45", "*:30"}
TimeOf(s) ==
  IF s = "14:45" THEN [hour |-> {14}, minute |-> {45}]
  ELSE IF s = "*:30" THEN [hour |-> 0..23, minute |-> {30}]
  ELSE [hour |-> {8}, minute |-> {30}]

ExpectedTimes == SelectSeq(scheduleTimes, LAMBDA s : s \in WellFormed)

\* C22: Start always succeeds; afterwards the scheduler is started, the
\* registered triggers are exactly the well-formed configured entries in
\* their order, and active_jobs is their number.
StartTolerant ==
  /\ cronState = "new" => cronEntries = <<>> /\ ENABLED Start
  /\ cronState # "new" =>
       /\ Len(cronEntries) = Len(ExpectedTimes)
       /\ \A k \in 1..Len(cronEntries) :
            /\ cronEntries[k].hour = TimeOf(ExpectedTimes[k]).hour
            /\ cronEntries[k].minute = TimeOf(ExpectedTimes[k]).minute
       /\ scheduleInfo # <<>> =>
            scheduleInfo[1].active_jobs = Len(ExpectedTimes)

StartTolerantWitness ==
  /\ scheduleTimes = <<"08:30", "bad", "14:45">>
  /\ cronState = "running"
  /\ Len(cronEntries) = 2
  /\ scheduleInfo # <<>>
  /\ scheduleInfo[1].active_jobs = 2

\* C23: after Start no two registered triggers have the same time of day.
OneTriggerPerTime ==
  cronState # "new" =>
     \A i, j \in 1..Len(cronEntries) :
        /\ cronEntries[i].hour = cronEntries[j].hour
        /\ cronEntries[i].minute = cronEntries[j].minute
        => i = j

\* C24: every firing has started one summary-only run of its own, which
\* attempts one "request accepted" notification and one summary, and every
\* run was started by a firing.
FiringStartsOne ==
  /\ \A f \in 1..Len(firings) :
       LET t == firings[f].task
       IN /\ firings[f].entry \in 1..Len(cronEntries)
          /\ kind[t] = "summary"
          /\ pc[t] # "idle"
          /\ \A g \in 1..Len(firings) : firings[g].task = t => g = f
          /\ Cardinality(AcceptedEntries(t)) =
               IF pc[t] = "accepting" THEN 0 ELSE 1
          /\ Cardinality(SummaryEntries(t)) = IF pc[t] = "done" THEN 1 ELSE 0
  /\ \A t \in Tasks :
       pc[t] # "idle" => \E f \in 1..Len(firings) : firings[f].task = t

FiringStartsOneWitness ==
  /\ Len(firings) = 2
  /\ pc[firings[1].task] = "done"
  /\ N = 2
  /\ Cardinality(SummaryEntries(firings[1].task)) = 1
  /\ pc[firings[2].task] = "accepting"

\* C25 as stated: a run that was in flight when Stop was called goes on to
\* its summary delivery: until it is done it can take a further step.
StopKeepsRun ==
  \A t \in inFlightAtStop \cap Active :
     pc[t] # "done" => ENABLED RunStep(t)

\* C25 as amended: after Stop no trigger fires and no run is started; the
\* Stop call changes nothing of a run in flight, which can go on as long as
\* the process lives.
StopHalts ==
  [][/\ cronState = "stopped" =>
          /\ firings' = firings
          /\ \A t \in Tasks : pc[t] = "idle" => pc'[t] = "idle"
     /\ cronState = "running" /\ cronState' = "stopped" =>
          /\ UNCHANGED <<taskVars, runVars, sink>>
          /\ inFlightAtStop' = {t \in Tasks : pc[t] \notin {"idle", "done"}}
     /\ \A t \in inFlightAtStop \cap Active :
          pc[t] # "done" /\ ~exited => ENABLED RunStep(t)]_vars

StopHaltsWitness ==
  \E t \in inFlightAtStop :
     /\ ~exited
     /\ pc[t] = "done"
     /\ N = 2
     /\ Cardinality(SummaryEntries(t)) = 1
     /\ \A p \in SummaryEntries(t) : Len(sink[p].summary.BuySignals) = 2

\* C26: a GetScheduleInfo call changes only its own answer, and the answer
\* holds the configured strings as they are, the number of registered
\* triggers and one next-run time per registered trigger.
ScheduleInfoSnapshot ==
  [][scheduleInfo' # scheduleInfo =>
       /\ UNCHANGED <<scheduleTimes, cronEntries, cronState, firings, exited,
                      taskVars, runVars, sink, signalCache, request>>
       /\ LET i == scheduleInfo'[1]
          IN /\ i.configured_times = scheduleTimes
             /\ i.active_jobs = Len(cronEntries)
             /\ Len(i.next_runs) = Len(cronEntries)
             /\ \A k \in 1..Len(cronEntries) :
                  /\ i.next_runs[k].hour = cronEntries[k].hour
                  /\ i.next_runs[k].minute = cronEntries[k].minute]_vars

ScheduleInfoSnapshotWitness ==
  /\ scheduleInfo # <<>>
  /\ scheduleInfo[1].configured_times = <<"25:99", "14:45">>
  /\ scheduleInfo[1].active_jobs = 1
  /\ scheduleInfo[1].next_runs = <<[hour |-> {14}, minute |-> {45}]>>
  /\ \E t \in Tasks : pc[t] = "inferring"

\* C27: at any time the cache holds either readers only or one writer
\* alone, and the lock's own count agrees with the callers inside.
ReadersWriterExclusion ==
  /\ Writing = {} \/ (Cardinality(Writing) = 1 /\ Reading = {})
  /\ mu.readers = Cardinality(Reading)
  /\ mu.writer = (Writing # {})

ReadersWriterExclusionWitness ==
  /\ Cardinality(Reading) = 2
  /\ LockWaiting # {}
  /\ signalCache # <<>>

\* A batch run that has started and has not yet delivered its summary.
InProgress(t) == IsBatch(t) /\ pc[t] \notin {"idle", "done"}
Startable(t) == pc[t] = "idle" /\ \A u \in Tasks : u < t => pc[u] # "idle"

\* C28: batch runs are not mutually exclusive: whatever the other runs are
\* doing, a trigger of either variant starts its run at once; nothing
\* rejects, queues or delays it.
RunsNotExclusive ==
  \A t \in Tasks : Startable(t) =>
     /\ ENABLED (GenerateAllSignals(t) /\ UNCHANGED <<request, cronVars>>)
     /\ ENABLED (GenerateAllSignalsSummary(t) /\ UNCHANGED <<request, cronVars>>)

\* Two runs are in progress at once; each has had a delivery and external
\* calls answered while the other was running.
RunsNotExclusiveWitness ==
  /\ \A t \in Tasks : InProgress(t) /\ Len(calls[t]) >= 2
  /\ Len(sink) = 2
  /\ sink[1].msg = "accepted" /\ sink[1].task = 2
  /\ sink[2].msg = "accepted" /\ sink[2].task = 1

\* C29: concurrent batch runs share no result state: at every moment the
\* buckets of a run, and the summary it builds, hold exactly the outcomes of
\* the calls that run itself made, classified by direction, and the sizes in
\* its summary add up to the number of configured symbols.
OwnOutcomes(t, b, s, h, f) ==
  /\ b = Expected(calls[t], "buy")
  /\ s = Expected(calls[t], "sell")
  /\ h = Expected(calls[t], "hold")
  /\ f = FailuresOf(calls[t])
RunsIsolated ==
  \A t \in Tasks : IsBatch(t) =>
     /\ OwnOutcomes(t, buySignals[t], sellSignals[t], holdSignals[t],
                    failedSignals[t])
     /\ Built(t) =>
          LET m == summary[t][1]
          IN /\ OwnOutcomes(t, m.BuySignals, m.SellSignals, m.HoldSignals,
                            m.FailedSignals)
             /\ m.TotalAnalyzed = N
             /\ Len(m.BuySignals) + Len(m.SellSignals) + Len(m.HoldSignals)
                  + Len(m.FailedSignals) = N

\* Two overlapping runs have both built their summaries, with different
\* outcomes for the same symbols.
RunsIsolatedWitness ==
  /\ pc[1] = "sending" /\ pc[2] = "sending"
  /\ Len(summary[1][1].BuySignals) = N
  /\ Len(summary[2][1].HoldSignals) = 1
  /\ Len(summary[2][1].FailedSignals) = N - 1

\* C30 as stated: for /bulk and /summary, every delivery of the batch run
\* the command started comes after the handler's own acknowledgment text.
RunEntries(t) == {p \in 1..Len(sink) : sink[p].task = t}
AckBeforeRun ==
  \A r \in Requests :
     LET q == request[r]
     IN q.route = "webhook" /\ q.branch \in {"bulk", "summary"} /\ q.task # 0
        => \A p \in RunEntries(q.task) :
              \E a \in HandlerEntries(r) : a < p

\* C31 as stated: every registered trigger fires at one hour and one minute
\* of the day, so at most once per day.
DailyTriggers ==
  \A k \in 1..Len(cronEntries) :
     /\ Cardinality(cronEntries[k].hour) = 1
     /\ Cardinality(cronEntries[k].minute) = 1

\* The ratio lines of a presented message: the risk_reward block of a signal
\* message, the BUY or SELL line of a summary.
RatioLines(message) ==
  {k \in 1..Len(message) : message[k].part \in {"risk_reward", "buy", "sell"}}

\* C32 as stated: a signal the classification rule puts in the buy bucket
\* with entry > stop and target > entry is presented with risk = entry -
\* stop, reward = target - entry and ratio = reward / risk, and a signal of
\* the sell bucket with stop > entry > target with risk = stop - entry,
\* reward = entry - target and their ratio.
RatioFollowsBucket ==
  presented # <<>> =>
     LET signal == presented[1].signal
         message == presented[1].message
         bucket == ExpectedBucket(signal)
         risk == IF bucket = "buy" THEN signal.BuyPrice - signal.StopLoss
                 ELSE signal.StopLoss - signal.BuyPrice
         reward == IF bucket = "buy" THEN signal.TargetPrice - signal.BuyPrice
                   ELSE signal.BuyPrice - signal.TargetPrice
     IN bucket \in {"buy", "sell"} /\ risk > 0 /\ reward > 0 =>
          /\ RatioLines(message) # {}
          /\ \A k \in RatioLines(message) :
               IF message[k].part = "risk_reward"
               THEN /\ message[k].risk = risk
                    /\ message[k].reward = reward
                    /\ message[k].ratio = Hundredths(reward, risk)
               ELSE message[k].ratio = <<Hundredths(reward, risk)>>

CacheGrows ==
  [][/\ DOMAIN signalCache \subseteq DOMAIN signalCache'
     /\ \A s \in DOMAIN signalCache : signalCache'[s] >= signalCache[s]
     /\ signalCache' # signalCache =>
          \E sym \in Symbols :
             /\ DOMAIN signalCache' = DOMAIN signalCache \cup {sym}
             /\ signalCache'[sym] = now
             /\ \A o \in DOMAIN signalCache \ {sym} :
                  signalCache'[o] = signalCache[o]
     /\ \A sym \in Symbols :
          /\ UpdateCall(sym) =>
               sym \in DOMAIN signalCache' /\ signalCache'[sym] = now
          /\ CanGenerateCall(sym) => signalCache' = signalCache]_vars

\* Both symbols are recorded, one of them again at a later time, and
\* CanGenerate has just been asked.
CacheGrowsWitness ==
  /\ DOMAIN signalCache = Symbols
  /\ \E a, b \in Symbols : signalCache[a] > signalCache[b] /\ signalCache[b] > 0
  /\ canGenerate # <<>>

\* C35: every started batch run ends, after the delivery attempt of its
\* summary, whatever symbols are configured and whichever calls fail.
RunTerminates ==
  \A t \in Active :
     IsBatch(t) ~> (pc[t] = "done" /\ SummaryEntries(t) # {})

\* A run has ended after a failed symbol, a pause and a failed delivery.
RunTerminatesWitness ==
  \E t \in Active :
     /\ IsBatch(t) /\ pc[t] = "done"
     /\ failedSignals[t] # <<>> /\ sleeps[t] > 0
     /\ \E p \in SummaryEntries(t) : ~sink[p].ok

\* A signal without the time it was generated at, and what a call
\* returned to the loop.
PlainSignal(sig) ==
  [Signal |-> sig.Signal, Confidence |-> sig.Confidence,
   StockSymbol |-> sig.StockSymbol]
PlainSignals(q) == [k \in 1..Len(q) |-> PlainSignal(q[k])]
Outcome(c) ==
  [op |-> c.op, err |-> c.err, bars |-> c.bars,
   out |-> IF c.op = "infer" /\ ~c.err THEN <<PlainSignal(c.out.signal)>>
           ELSE <<>>]
SameOutcomes(t, u, m) ==
  \A q \in 1..m : Outcome(calls[t][q]) = Outcome(calls[u][q])
Shorter(t, u) ==
  IF Len(calls[t]) <= Len(calls[u]) THEN Len(calls[t]) ELSE Len(calls[u])

SymbolsOf(q) == [k \in 1..Len(q) |-> q[k].StockSymbol]

\* The list positions from k on can be dealt out to the four sequences of
\* symbols, each position to one of them, so that what is left of every
\* sequence is exactly the symbols at its positions, in the order of the list.
RECURSIVE DealtOut(_, _, _, _, _)
DealtOut(k, buy, sell, hold, failed) ==
  IF k > N
  THEN buy = <<>> /\ sell = <<>> /\ hold = <<>> /\ failed = <<>>
  ELSE \/ /\ buy # <<>> /\ Head(buy) = StockSymbols[k]
          /\ DealtOut(k + 1, Tail(buy), sell, hold, failed)
       \/ /\ sell # <<>> /\ Head(sell) = StockSymbols[k]
          /\ DealtOut(k + 1, buy, Tail(sell), hold, failed)
       \/ /\ hold # <<>> /\ Head(hold) = StockSymbols[k]
          /\ DealtOut(k + 1, buy, sell, Tail(hold), failed)
       \/ /\ failed # <<>> /\ Head(failed) = StockSymbols[k]
          /\ DealtOut(k + 1, buy, sell, hold, Tail(failed))

\* C37: a summary partitions the configured list by occurrence: the list
\* positions can be dealt out to buy, sell, hold and failed, each position
\* to one of them, so that every collection holds exactly the symbols at
\* its positions, in the order of the list.
PartitionByOccurrence ==
  \A t \in Tasks : Built(t) =>
     LET m == summary[t][1]
     IN DealtOut(1, SymbolsOf(m.BuySignals), SymbolsOf(m.SellSignals),
                 SymbolsOf(m.HoldSignals), m.FailedSignals)

\* A symbol is configured twice; one occurrence is a buy, the other failed.
PartitionByOccurrenceWitness ==
  \E t \in Tasks :
     /\ IsBatch(t) /\ Built(t)
     /\ N = 2 /\ StockSymbols[1] = StockSymbols[2]
     /\ Len(summary[t][1].BuySignals) = 1
     /\ Len(summary[t][1].FailedSignals) = 1

\* The runs that were started, and the runs the requests started.
Started == {t \in Tasks : pc[t] # "idle"}
StartedBy(r) == IF request[r].task = 0 THEN {} ELSE {request[r].task}

\* C38: a /bulk or /summary command has started one batch run of its
\* variant and no request has started a second run; the run is not ended by
\* the acknowledgment: it has ended only if it delivered its summary.
CommandStartsOne ==
  /\ Started = UNION {StartedBy(r) : r \in Requests}
  /\ \A r, o \in Requests : r # o => StartedBy(r) \cap StartedBy(o) = {}
  /\ \A r \in Requests :
       LET q == request[r]
       IN q.route = "webhook" /\ q.branch \in {"bulk", "summary"} =>
            /\ q.task \in Tasks
            /\ kind[q.task] = IF q.branch = "bulk" THEN "all" ELSE "summary"
            /\ pc[q.task] = "done" => SummaryEntries(q.task) # {}

\* The acknowledgment of a /summary command was not delivered; its run has
\* gone through all symbols and delivered its summary.
CommandStartsOneWitness ==
  \E r \in Requests :
     /\ request[r].branch = "summary"
     /\ request[r].status = StatusInternalServerError
     /\ pc[request[r].task] = "done"
     /\ Fetched(request[r].task, N)
     /\ \E p \in SummaryEntries(request[r].task) : sink[p].ok

\* The positions of an answer whose bar is kept: all five arrays reach the
\* position and open, high, low and close are not zero there.
KeptPositions(q) ==
  {k \in 1..Len(q.timestamp) :
     /\ k <= Len(q.open) /\ k <= Len(q.high) /\ k <= Len(q.low)
     /\ k <= Len(q.close) /\ k <= Len(q.volume)
     /\ q.open[k] # 0 /\ q.high[k] # 0 /\ q.low[k] # 0 /\ q.close[k] # 0}
NthOf(S, j) == CHOOSE k \in S : Cardinality({i \in S : i < k}) = j - 1

\* C39: FetchOHLCData returns an error exactly when the request failed,
\* the chart has no result or no quote, or no bar is kept; otherwise it
\* returns the kept bars, at least one, none with a zero open, high, low or
\* close, in the order of the upstream arrays.
NeverEmptySuccess ==
  fetched # <<>> =>
     LET q == fetched[1].resp
         o == fetched[1].out
         kept == KeptPositions(q)
     IN /\ o.err <=> (q.fail \/ q.results = 0 \/ q.quotes = 0 \/ kept = {})
        /\ o.err => o.data = <<>>
        /\ ~o.err =>
             /\ Len(o.data) > 0
             /\ Len(o.data) = Cardinality(kept)
             /\ \A j \in 1..Len(o.data) :
                  LET k == NthOf(kept, j)
                  IN /\ o.data[j].Timestamp = q.timestamp[k]
                     /\ o.data[j].Open = q.open[k] /\ o.data[j].Open # 0
                     /\ o.data[j].High = q.high[k] /\ o.data[j].High # 0
                     /\ o.data[j].Low = q.low[k] /\ o.data[j].Low # 0
                     /\ o.data[j].Close = q.close[k] /\ o.data[j].Close # 0
                     /\ o.data[j].Volume = q.volume[k]

\* Of two upstream bars, given latest first, one has a zero and is dropped.
NeverEmptySuccessWitness ==
  /\ fetched # <<>>
  /\ fetched[1].resp.timestamp = <<2, 1>>
  /\ fetched[1].resp.open = <<0, 5>>
  /\ ~fetched[1].out.err
  /\ Len(fetched[1].out.data) = 1
  /\ fetched[1].out.data[1].Timestamp = 1

====
